---- MODULE Spec2Model ----
(***************************************************************************)
(* Agent Orchestra backend: the in-memory store, the websocket event bus   *)
(* with its replay buffers, the pending-question relay and the dynamic     *)
(* agent scheduler, as a state machine.                                    *)
(*                                                                         *)
(* The backend runs on one asyncio event loop.  A coroutine runs without   *)
(* interruption from one suspension point (an await that really blocks:    *)
(* a websocket send/receive/accept, a pipe read, a process wait, an Event  *)
(* wait) to the next, so every action below is one such uninterrupted      *)
(* run of one coroutine, or one step of the environment (a subprocess, a   *)
(* websocket peer, the task being cancelled).                              *)
(***************************************************************************)
EXTENDS Integers, Sequences, FiniteSets, TLC

(***************************************************************************)
(* Identifiers.  Executions (tasks) and conversations name the two kinds   *)
(* of stream: store.execution_messages / store.websocket_connections are   *)
(* keyed by execution id, store.console_messages /                         *)
(* store.console_connections by conversation id.  The two pairs of         *)
(* dictionaries are handled by line-for-line identical code, so the model  *)
(* keeps one map over both kinds of key.                                   *)
(***************************************************************************)
Tasks == {1, 2}
Convs == {11}
Streams == Tasks \cup Convs
Conns == {1, 2, 3}

\* store._MESSAGE_BUFFER_CAP is 500 in the source; the model scales it down.
MESSAGE_BUFFER_CAP == 2
\* ws._MAX_CONNECTIONS_PER_EXECUTION / conversations._MAX_CONSOLE_CONNECTIONS
\* are 10 in the source; the model scales them down.
MAX_CONNECTIONS == 2
\* internal_dynamic.MAX_AGENTS_PER_EXECUTION is 100 in the source; scaled down.
MAX_AGENTS_PER_EXECUTION == 2
\* the pending-question cap of post_question is 100 in the source; scaled down.
MAX_PENDING_QUESTIONS == 2
\* executions._execution_semaphore is Semaphore(5) in the source; scaled down.
EXECUTION_SEMAPHORE == 1

\* Bounds of the model.
MaxSpawnCalls == 3
MaxLines == 1
MaxPublish == 3
MaxAsks == 3
MaxRelayAsks == 2
MaxGets == 1
MaxLaunched == 1
MaxWaitIds == 2

AgentIds == 1..MaxSpawnCalls
None == 0

VARIABLES
    \* ---- event bus (store.py)
    messages,        \* stream -> replay buffer (execution_messages, console_messages)
    connections,     \* stream -> set of registered websockets
    connGen,         \* stream -> identity of the set object held by the dictionary
    received,        \* websocket -> frames the peer has been sent, in order
    published,       \* stream -> every message ever broadcast on it, in order
    resetAt,         \* stream -> Len(published) when its buffer was last popped
    conn,            \* websocket -> state of its handler coroutine
    bc,              \* coroutine -> its store.broadcast call in progress
    \* ---- conversations and executions
    activeExecutionId, \* conversation -> execution it is linked to (None: none)
    exec,            \* execution -> record of the task and of its executor
    sandbox_status,  \* the cached SandboxStatus of get_sandbox_status()
    pipeline,        \* execution -> its static pipeline: the steps and the wave run
    finding,         \* the output line parsed last and the finding made of it
    \* ---- dynamic agents (routes/internal_dynamic.py, dynamic_orchestrator.py)
    agent_counter,   \* store._agent_counter
    dynamic_agents,  \* execution -> agent id -> agent record (NoAgent: absent)
    launcher,        \* agent id -> state of its launch_agent_subprocess task
    proc,            \* agent id -> the agent's OS process
    trace,           \* agent id -> the launcher's effects on the agent, in code order
    spawnReq,        \* request slot -> the spawn-agent(s) request it is serving
    waitReq,         \* the POST /agents/wait request being served
    \* ---- pending questions (routes/internal.py)
    pending_questions,              \* question id -> entry object (None: absent)
    pending_questions_by_execution, \* execution -> list of question ids
    qobj,            \* entry object -> its fields
    nextObj,         \* number of entry objects created
    qlistGen,        \* execution -> identity of its list object in the index
    gets,            \* long-poll GET /question/{id}/answer requests
    lastObj,         \* question id -> the entry object last stored under it
    delivered,       \* entry object -> some GET returned its accepted answer
    askResp,         \* request slot -> status of the last POST /question response
    ansResp,         \* question id -> status of the last POST /question/{id}/answer
    authResp,        \* the last response to a request that failed token verification
    toolResp         \* the last response of a sidechannel bridge to its agent

(***************************************************************************)
(* services/sandbox.py: the execution mode of the process.                 *)
(***************************************************************************)
\* _compute_execution_mode asking for a container runtime before the override
compute_execution_mode_docker_first(sandboxed, override_active, docker_available) ==
    IF sandboxed THEN "native"
    ELSE IF docker_available THEN "docker-wrap"
    ELSE IF override_active THEN "host-override"
    ELSE "blocked"

\* sandbox.py 39-54
_compute_execution_mode(sandboxed, override_active, docker_available) ==
    IF sandboxed THEN "native"
    ELSE IF override_active THEN "host-override"
    ELSE IF docker_available THEN "docker-wrap"
    ELSE "blocked"

\* sandbox.py 57-132 detect_sandbox: every branch builds the SandboxStatus
\* from what it detected and from _compute_execution_mode of it
detect_sandbox(sandboxed, override_active, docker_available) ==
    [sandboxed |-> sandboxed, override_active |-> override_active,
     docker_available |-> docker_available,
     execution_mode |-> _compute_execution_mode(sandboxed, override_active,
                                                docker_available)]

\* sandbox.py 141-156 require_execution_capability reads the cached status
exec_mode == sandbox_status.execution_mode

\* Blocked never raising
BlockedNever == FALSE

\* sandbox.py 148-155: require_execution_capability raises RuntimeError
Blocked == exec_mode = "blocked"

busVars == <<messages, connections, connGen, received, published, resetAt, conn, bc>>
execVars == <<activeExecutionId, exec, sandbox_status, pipeline, finding>>
agentVars == <<agent_counter, dynamic_agents, launcher, proc, trace, spawnReq, waitReq>>
questionVars == <<pending_questions, pending_questions_by_execution, qobj, nextObj,
                  qlistGen, gets, lastObj, delivered, askResp, ansResp,
                  authResp, toolResp>>
vars == <<busVars, execVars, agentVars, questionVars>>

(***************************************************************************)
(* Coroutines that call store.broadcast: the launcher task of an agent,    *)
(* the spawn-agent request (one at a time per caller: the batch endpoint   *)
(* awaits each spawn), the executor of a task, a post_question request,    *)
(* the file-activity task created for an agent.                            *)
(***************************************************************************)
SpawnSlots == {1, 2}
Procs == ({"launch"} \X AgentIds) \cup ({"spawn"} \X SpawnSlots) \cup ({"exec"} \X Tasks)
         \cup ({"ask"} \X (1..(MaxAsks + 1))) \cup ({"ws"} \X Conns)
         \cup ({"file"} \X AgentIds)

(***************************************************************************)
(* Messages.  n is the serial number of the message on its stream (the     *)
(* position at which it was published); replayed snapshots carry n = 0.    *)
(***************************************************************************)
Msg(type, ref, status) == [n |-> 0, type |-> type, ref |-> ref, status |-> status]

IdleBc == [phase |-> "idle", sid |-> 0, msg |-> Msg("", 0, ""), orig |-> {},
           visited |-> {}, gen |-> 0, dead |-> {}, follow |-> None]

PeerOpen(c) == conn[c].peer = "open"

\* The event bus as one value, so that one coroutine step can run through
\* the end of one broadcast into the beginning of the next.
Bus == [msgs |-> messages, subs |-> connections, gen |-> connGen,
        rcv |-> received, pub |-> published]

SetBus(b) ==
    /\ messages' = b.msgs
    /\ connections' = b.subs
    /\ connGen' = b.gen
    /\ received' = b.rcv
    /\ published' = b.pub

\* Evict dropping the newest entries instead of the oldest
EvictNewest(buf) ==
    IF Len(buf) > MESSAGE_BUFFER_CAP THEN SubSeq(buf, 1, MESSAGE_BUFFER_CAP) ELSE buf

\* store.py 231-232: drop the oldest entries over the cap
Evict(buf) ==
    IF Len(buf) > MESSAGE_BUFFER_CAP
    THEN SubSeq(buf, Len(buf) - MESSAGE_BUFFER_CAP + 1, Len(buf))
    ELSE buf

\* BufferMessage leaving the buffer alone: the append comes after the sends
BufferMessageAfterSends(b, s, m) == b

\* store.py 227-232: append to the replay buffer, then evict, with no await
BufferMessage(b, s, m) ==
    [b EXCEPT !.msgs[s] = Evict(Append(@, m)), !.pub[s] = Append(@, m)]

\* ws.send_text(payload): the frame reaches the peer, or raises if it is gone
SendTo(b, c, m) == IF PeerOpen(c) THEN [b EXCEPT !.rcv[c] = Append(@, m)] ELSE b

Stamp(b, s, m) == [m EXCEPT !.n = Len(b.pub[s]) + 1]

(***************************************************************************)
(* store.broadcast / store.broadcast_console, from the point where the     *)
(* `for ws in connections` loop asks its iterator for the next element, up *)
(* to the next suspension (a send) or the return.  The iterator is over    *)
(* the live set object: it raises RuntimeError when the set's size has     *)
(* changed since the loop began (gen: the dictionary entry was deleted, so *)
(* the held object is now empty), and its order is the set's own.  When    *)
(* the task-stream broadcast returns and r.follow names an execution, the  *)
(* callers' loop over store.conversations starts broadcast_console on the  *)
(* linked conversation in the same uninterrupted run.                      *)
(* Result: the set of possible <<bus, broadcast record>> outcomes.         *)
(***************************************************************************)
RECURSIVE BcLoop(_, _)
BcStart(b, s, m0, follow) ==
    LET m == Stamp(b, s, m0)
        b1 == BufferMessage(b, s, m)
        r == [phase |-> "sending", sid |-> s, msg |-> m, orig |-> b1.subs[s],
              visited |-> {}, gen |-> b1.gen[s], dead |-> {}, follow |-> follow]
    IN BcLoop(b1, r)

\* dynamic_orchestrator.py 731-735: _broadcast_output sends an output line
\* to the console stream as a console-text message
ConsoleMsg(m) ==
    IF m.type = "output" /\ m.status # "phase" THEN [m EXCEPT !.type = "console-text"]
    ELSE m

BcFinish(b, r) ==
    LET b1 == [b EXCEPT !.subs[r.sid] = @ \ r.dead]
        linked == {cv \in Convs : r.follow # None /\ activeExecutionId[cv] = r.follow}
    IN IF linked = {}
       THEN {<<b1, [r EXCEPT !.phase = "done"]>>}
       ELSE UNION {BcStart(b1, cv, ConsoleMsg(r.msg), None) : cv \in linked}

BcLoop(b, r) ==
    IF r.gen # b.gen[r.sid] \/ Cardinality(b.subs[r.sid]) # Cardinality(r.orig)
    THEN {<<b, [r EXCEPT !.phase = "raised"]>>}
    ELSE LET old == (b.subs[r.sid] \cap r.orig) \ r.visited
             new == (b.subs[r.sid] \ r.orig) \ r.visited
         IN (IF old = {} THEN BcFinish(b, r) ELSE {})
            \cup
            { <<SendTo(b, c, r.msg),
                [r EXCEPT !.phase = "sending", !.visited = @ \cup {c},
                          !.dead = IF PeerOpen(c) THEN @ ELSE @ \cup {c}]>>
              : c \in old \cup new }

\* store.broadcast(execution_id, message), on its own
broadcast(b, e, m) == BcStart(b, e, m, None)
\* store.broadcast_console(conversation_id, message)
broadcast_console(b, cv, m) == BcStart(b, cv, m, None)
\* broadcast_both / _broadcast_agent_event: the task stream, then the console
\* stream of the conversation linked to the execution
broadcast_both(b, e, m) == BcStart(b, e, m, e)

(***************************************************************************)
(* A coroutine suspended in a send of its broadcast resumes.               *)
(***************************************************************************)
BcResume(p) ==
    /\ bc[p].phase = "sending"
    /\ \E out \in BcLoop(Bus, bc[p]) :
         /\ SetBus(out[1])
         /\ bc' = [bc EXCEPT ![p] = out[2]]
    /\ UNCHANGED <<resetAt, conn, execVars, agentVars, questionVars>>

(***************************************************************************)
(* Websocket handlers: routes/ws.py execution_ws (task streams) and        *)
(* routes/conversations.py console_ws (conversation streams).              *)
(***************************************************************************)
NewConn == [pc |-> "new", sid |-> 0, i |-> 0, detached |-> FALSE, frozen |-> <<>>,
            qi |-> 0, qgen |-> 0, peer |-> "open", code |-> 0,
            joinN |-> 0, joinBuf |-> <<>>]

NoAns == "<none>"

SnapshotMsg(e) ==
    [n |-> 0, type |-> "execution-snapshot", ref |-> e, status |-> exec[e].status]

\* ws.py 64-66: the next index of the per-execution question list, after
\* position qi, whose question is still in the table and unanswered (0: none)
NextUnanswered(qlist, qi) ==
    LET ok == {j \in (qi + 1)..Len(qlist) :
                 /\ pending_questions[qlist[j]] # None
                 /\ qobj[pending_questions[qlist[j]]].answer = NoAns}
    IN IF ok = {} THEN 0 ELSE CHOOSE j \in ok : \A k \in ok : j <= k

\* await websocket.send_text(...) in the handler, outside its try block: a
\* send to a peer that is gone raises, and the handler ends without running
\* its cleanup, so the websocket stays registered.
HandlerSend(b, c, m, r) ==
    IF PeerOpen(c) THEN <<SendTo(b, c, m), r>> ELSE <<b, [r EXCEPT !.pc = "dead"]>>

(***************************************************************************)
(* ws.py 46-73 / conversations.py 491-493: the handler, resumed after      *)
(* accept() or after one of its sends, runs to its next send or to the     *)
(* receive loop.  The replay iterates over the live buffer list by index   *)
(* (a list popped from the dictionary meanwhile stays as it was: frozen).  *)
(***************************************************************************)
ReplayNext(b, c, r) ==
    LET list == IF r.detached THEN r.frozen ELSE b.msgs[r.sid]
        inReplay == r.pc \in {"accepting", "replay"}
        qlive == r.pc # "questions" \/ r.qgen = qlistGen[r.sid]
        qlist == IF r.sid \in Tasks /\ qlive
                 THEN pending_questions_by_execution[r.sid] ELSE <<>>
        j == NextUnanswered(qlist, r.qi)
    IN IF inReplay /\ r.i < Len(list)
       THEN HandlerSend(b, c, list[r.i + 1], [r EXCEPT !.pc = "replay", !.i = @ + 1])
       ELSE IF inReplay /\ r.sid \in Tasks /\ exec[r.sid].status # "absent"
       THEN HandlerSend(b, c, SnapshotMsg(r.sid), [r EXCEPT !.pc = "snapshot"])
       ELSE IF j # 0
       THEN HandlerSend(b, c, Msg("clarification", qlist[j], ""),
                        [r EXCEPT !.pc = "questions", !.qi = j,
                                  !.qgen = IF r.pc = "questions" THEN @
                                           ELSE qlistGen[r.sid]])
       ELSE <<b, [r EXCEPT !.pc = "open"]>>

\* ws.py 27-39 / conversations.py 472-484: origin check, connection cap, then
\* await accept() or await close(code)
WsConnect(c, s, originOk) ==
    /\ conn[c].pc = "new"
    /\ conn' = [conn EXCEPT ![c] =
           IF ~originOk
           THEN [@ EXCEPT !.pc = "rejected", !.sid = s, !.code = 4003]
           ELSE IF Cardinality(connections[s]) >= MAX_CONNECTIONS
           THEN [@ EXCEPT !.pc = "rejected", !.sid = s, !.code = 4004]
           ELSE [@ EXCEPT !.pc = "accepting", !.sid = s]]
    /\ UNCHANGED <<messages, connections, connGen, received, published, resetAt, bc,
                   execVars, agentVars, questionVars>>

\* ws.py 41-48 / conversations.py 486-493: register, then start the replay
WsAccepted(c) ==
    /\ conn[c].pc = "accepting"
    /\ LET s == conn[c].sid
           b == [Bus EXCEPT !.subs[s] = @ \cup {c}]
           r == [conn[c] EXCEPT !.joinN = Len(published[s]), !.joinBuf = messages[s]]
           out == ReplayNext(b, c, r)
       IN /\ SetBus(out[1])
          /\ conn' = [conn EXCEPT ![c] = out[2]]
    /\ UNCHANGED <<resetAt, bc, execVars, agentVars, questionVars>>

\* the handler resumes after a replay, snapshot or question send
WsReplayStep(c) ==
    /\ conn[c].pc \in {"replay", "snapshot", "questions"}
    /\ LET out == ReplayNext(Bus, c, conn[c])
       IN /\ SetBus(out[1])
          /\ conn' = [conn EXCEPT ![c] = out[2]]
    /\ UNCHANGED <<resetAt, bc, execVars, agentVars, questionVars>>

\* the peer goes away (the handler notices at its next receive or send)
PeerGone(c) ==
    /\ conn[c].pc \in {"replay", "snapshot", "questions", "open"}
    /\ conn[c].peer = "open"
    /\ conn' = [conn EXCEPT ![c].peer = "gone"]
    /\ UNCHANGED <<messages, connections, connGen, received, published, resetAt, bc,
                   execVars, agentVars, questionVars>>

\* ws.py 92-100 / conversations.py 539-546: receive_text raises
\* WebSocketDisconnect; the finally block unregisters the websocket and
\* deletes the dictionary entry when the set is left empty
WsDisconnect(c) ==
    /\ conn[c].pc = "open"
    /\ conn[c].peer = "gone"
    /\ LET s == conn[c].sid
           left == connections[s] \ {c}
       IN /\ connections' = [connections EXCEPT ![s] = left]
          /\ connGen' = [connGen EXCEPT ![s] = IF left = {} THEN @ + 1 ELSE @]
    /\ conn' = [conn EXCEPT ![c].pc = "closed"]
    /\ UNCHANGED <<messages, received, published, resetAt, bc,
                   execVars, agentVars, questionVars>>

(***************************************************************************)
(* Dynamic agents: routes/internal_dynamic.py                              *)
(***************************************************************************)
NoAgent == [status |-> "absent", completedAt |-> FALSE, result_event |-> FALSE]

Terminal == {"completed", "failed"}

\* the agents stored for execution e
AgentsOf(e) == {a \in AgentIds : dynamic_agents[e][a].status # "absent"}

IdleSpawn == [pc |-> "idle", e |-> 0, agent |-> 0, left |-> 0, resp |-> 0, made |-> 0]

\* SpawnBody with the cap compared by > instead of >=
SpawnBodyOffByOne(k, e, left, made) ==
    LET a == agent_counter + 1
        p == <<"spawn", k>>
    IN /\ agent_counter < MaxSpawnCalls
       /\ agent_counter' = a
       /\ IF Cardinality(AgentsOf(e)) > MAX_AGENTS_PER_EXECUTION
          THEN /\ spawnReq' = [spawnReq EXCEPT ![k] =
                                 [IdleSpawn EXCEPT !.resp = 429, !.made = made]]
               /\ bc' = [bc EXCEPT ![p] = IdleBc]
               /\ UNCHANGED <<dynamic_agents, messages, connections, connGen,
                              received, published, resetAt, conn>>
          ELSE /\ dynamic_agents' = [dynamic_agents EXCEPT ![e][a] =
                     [status |-> "pending", completedAt |-> FALSE,
                      result_event |-> FALSE]]
               /\ \E out \in broadcast_both(Bus, e, Msg("agent-spawn", a, "pending")) :
                    /\ SetBus(out[1])
                    /\ bc' = [bc EXCEPT ![p] = out[2]]
               /\ spawnReq' = [spawnReq EXCEPT ![k] =
                     [pc |-> "bcast", e |-> e, agent |-> a, left |-> left,
                      resp |-> 0, made |-> made]]
               /\ UNCHANGED <<resetAt, conn>>

\* internal_dynamic.py 56-107: allocate the id, build the record, enforce the
\* cap, store the agent and start the agent-spawn broadcast; all of it runs
\* without an await up to the first websocket send of the broadcast
SpawnBody(k, e, left, made) ==
    LET a == agent_counter + 1
        p == <<"spawn", k>>
    IN /\ agent_counter < MaxSpawnCalls
       /\ agent_counter' = a
       /\ IF Cardinality(AgentsOf(e)) >= MAX_AGENTS_PER_EXECUTION
          THEN \* HTTPException(429): the request (the whole batch) ends here
               /\ spawnReq' = [spawnReq EXCEPT ![k] =
                                 [IdleSpawn EXCEPT !.resp = 429, !.made = made]]
               /\ bc' = [bc EXCEPT ![p] = IdleBc]
               /\ UNCHANGED <<dynamic_agents, messages, connections, connGen,
                              received, published, resetAt, conn>>
          ELSE /\ dynamic_agents' = [dynamic_agents EXCEPT ![e][a] =
                     [status |-> "pending", completedAt |-> FALSE,
                      result_event |-> FALSE]]
               /\ \E out \in broadcast_both(Bus, e, Msg("agent-spawn", a, "pending")) :
                    /\ SetBus(out[1])
                    /\ bc' = [bc EXCEPT ![p] = out[2]]
               /\ spawnReq' = [spawnReq EXCEPT ![k] =
                     [pc |-> "bcast", e |-> e, agent |-> a, left |-> left,
                      resp |-> 0, made |-> made]]
               /\ UNCHANGED <<resetAt, conn>>

\* POST /spawn-agent
spawn_agent(k, e) ==
    /\ spawnReq[k].pc = "idle"
    /\ SpawnBody(k, e, 0, 0)
    /\ UNCHANGED <<launcher, proc, trace, waitReq, execVars, questionVars>>

\* POST /spawn-agents with n agent specs: the first spawn_agent call
spawn_agents_batch(k, e, n) ==
    /\ spawnReq[k].pc = "idle"
    /\ SpawnBody(k, e, n - 1, 0)
    /\ UNCHANGED <<launcher, proc, trace, waitReq, execVars, questionVars>>

\* internal_dynamic.py 113-116 (and 201-204 for a batch): the broadcast has
\* returned; create the launcher task and return, or, in a batch, go on
\* with the next spec.  A broadcast that raised ends the request with an
\* error before the launcher task is created.
SpawnReturn(k) ==
    LET p == <<"spawn", k>>
        r == spawnReq[k]
    IN /\ r.pc = "bcast"
       /\ bc[p].phase \in {"done", "raised"}
       /\ IF bc[p].phase = "raised"
          THEN /\ spawnReq' = [spawnReq EXCEPT ![k] =
                                 [IdleSpawn EXCEPT !.resp = 500, !.made = r.made]]
               /\ bc' = [bc EXCEPT ![p] = IdleBc]
               /\ UNCHANGED <<messages, connections, connGen, received, published,
                              resetAt, conn, agent_counter, dynamic_agents, launcher>>
          ELSE /\ launcher' = [launcher EXCEPT ![r.agent] =
                                 [pc |-> "scheduled", e |-> r.e]]
               /\ IF r.left > 0 /\ agent_counter < MaxSpawnCalls
                  THEN SpawnBody(k, r.e, r.left - 1, r.made + 1)
                  ELSE /\ spawnReq' = [spawnReq EXCEPT ![k] =
                              [IdleSpawn EXCEPT !.resp = 200, !.made = r.made + 1]]
                       /\ bc' = [bc EXCEPT ![p] = IdleBc]
                       /\ UNCHANGED <<messages, connections, connGen, received,
                                      published, resetAt, conn, agent_counter,
                                      dynamic_agents>>
       /\ UNCHANGED <<proc, trace, waitReq, execVars, questionVars>>

(***************************************************************************)
(* routes/internal_dynamic.py wait_for_agents (POST /agents/wait).         *)
(***************************************************************************)
NoWait == [pc |-> "idle", ids |-> <<>>, known |-> {}, res |-> <<>>]

\* every agent in the store
AllAgents == UNION {AgentsOf(e) : e \in Tasks}
\* the execution whose table holds agent a
TaskOf(a) == CHOOSE e \in Tasks : a \in AgentsOf(e)

Min(S) == CHOOSE x \in S : \A y \in S : x <= y

\* store.dynamic_agents.items(): a dict iterates in insertion order.  A key
\* is inserted by the first spawn-agent request for its execution (line 97),
\* and agent ids grow with every request, so the executions come in the
\* order of their first (smallest) agent id.
RECURSIVE DictOrder(_)
DictOrder(E) ==
    IF E = {} THEN <<>>
    ELSE LET first == CHOOSE e \in E : \A f \in E : Min(AgentsOf(e)) <= Min(AgentsOf(f))
         IN <<first>> \o DictOrder(E \ {first})

\* the ids of the request that are in table S, in the order of the request
IdsIn(ids, S) == SelectSeq(ids, LAMBDA a : a \in S)

RECURSIVE Concat(_)
Concat(ss) == IF ss = <<>> THEN <<>> ELSE Head(ss) \o Concat(Tail(ss))

\* lines 218-223: for each execution of the store, for each requested id,
\* the agents found
agents_to_wait(ids) ==
    LET order == DictOrder({e \in Tasks : AgentsOf(e) # {}})
    IN Concat([j \in 1..Len(order) |-> IdsIn(ids, AgentsOf(order[j]))])

\* lines 215-244: find the agents; return at once when there is none, else
\* gather one _wait_one coroutine per agent found
wait_for_agents(ids) ==
    /\ waitReq.pc = "idle"
    /\ LET found == agents_to_wait(ids)
       IN waitReq' = [pc |-> IF found = <<>> THEN "returned" ELSE "gather",
                      ids |-> ids, known |-> AllAgents,
                      res |-> [i \in 1..Len(found) |->
                                 [agent |-> found[i], how |-> "new", status |-> ""]]]
    /\ UNCHANGED <<busVars, execVars, agent_counter, dynamic_agents, launcher, proc,
                   trace, spawnReq, questionVars>>

\* the snapshot a _wait_one coroutine returns, taken when it returns
WaitResolve(i, how) ==
    LET a == waitReq.res[i].agent
    IN /\ waitReq' = [waitReq EXCEPT !.res[i].how = how,
                                     !.res[i].status = dynamic_agents[TaskOf(a)][a].status]
       /\ UNCHANGED <<busVars, execVars, agent_counter, dynamic_agents, launcher, proc,
                      trace, spawnReq, questionVars>>

\* lines 229-232: _wait_one starts; an agent that is completed or failed is
\* not waited for
WaitOneStart(i) ==
    /\ waitReq.pc = "gather"
    /\ i \in DOMAIN waitReq.res
    /\ waitReq.res[i].how = "new"
    /\ LET a == waitReq.res[i].agent
       IN IF dynamic_agents[TaskOf(a)][a].status \in Terminal
          THEN WaitResolve(i, "terminal")
          ELSE /\ waitReq' = [waitReq EXCEPT !.res[i].how = "waiting"]
               /\ UNCHANGED <<busVars, execVars, agent_counter, dynamic_agents, launcher,
                              proc, trace, spawnReq, questionVars>>

\* line 232: the agent's result_event is set
WaitOneWake(i) ==
    /\ waitReq.pc = "gather"
    /\ i \in DOMAIN waitReq.res
    /\ waitReq.res[i].how = "waiting"
    /\ LET a == waitReq.res[i].agent IN dynamic_agents[TaskOf(a)][a].result_event
    /\ WaitResolve(i, "signal")

\* lines 233-234: the request's timeout passed before the event was set
WaitOneTimeout(i) ==
    /\ waitReq.pc = "gather"
    /\ i \in DOMAIN waitReq.res
    /\ waitReq.res[i].how = "waiting"
    /\ LET a == waitReq.res[i].agent IN ~dynamic_agents[TaskOf(a)][a].result_event
    /\ WaitResolve(i, "timeout")

\* lines 242-246: gather returns when every _wait_one has returned
WaitGathered ==
    /\ waitReq.pc = "gather"
    /\ \A i \in DOMAIN waitReq.res : waitReq.res[i].how \in {"terminal", "signal", "timeout"}
    /\ waitReq' = [waitReq EXCEPT !.pc = "returned"]
    /\ UNCHANGED <<busVars, execVars, agent_counter, dynamic_agents, launcher, proc,
                   trace, spawnReq, questionVars>>

(***************************************************************************)
(* services/dynamic_orchestrator.py launch_agent_subprocess, the task      *)
(* created by spawn_agent for one agent, and the agent's OS process.       *)
(***************************************************************************)
NoLauncher == [pc |-> "none", e |-> 0]
NoProc == [state |-> "none", stdout |-> "closed", rc |-> 0, lines |-> 0,
           emitted |-> 0, killed |-> FALSE]

L(a) == <<"launch", a>>
Ag(a) == dynamic_agents[launcher[a].e][a]

\* the effects of a run of the launcher on its agent record and on the
\* agent's trace; fx is the sequence of effects in code order.  An effect
\* "output:..." is an append to the agent's output list.
Effect(ag, f) ==
    CASE f = "status:running" -> [ag EXCEPT !.status = "running"]
      [] f = "status:failed" -> [ag EXCEPT !.status = "failed"]
      [] f = "status:completed" -> [ag EXCEPT !.status = "completed"]
      [] f = "completedAt" -> [ag EXCEPT !.completedAt = TRUE]
      [] f = "signal" -> [ag EXCEPT !.result_event = TRUE]
      [] OTHER -> ag

RECURSIVE Effects(_, _)
Effects(ag, fx) == IF fx = <<>> THEN ag ELSE Effects(Effect(ag, Head(fx)), Tail(fx))

\* apply effects fx to agent a, then broadcast the agent event m (task
\* stream, then linked console stream) and go to pc
LaunchDo(a, fx, m, pc) ==
    LET e == launcher[a].e
        ag == Effects(Ag(a), fx)
        m1 == [m EXCEPT !.status = IF m.type = "agent-complete" THEN ag.status ELSE @]
    IN /\ dynamic_agents' = [dynamic_agents EXCEPT ![e][a] = ag]
       /\ trace' = [trace EXCEPT ![a] = @ \o fx \o <<m.type>>]
       /\ \E out \in broadcast_both(Bus, e, m1) :
            /\ SetBus(out[1])
            /\ bc' = [bc EXCEPT ![L(a)] = out[2]]
       /\ launcher' = [launcher EXCEPT ![a].pc = pc]
       /\ UNCHANGED <<resetAt, conn>>

\* apply effects fx to agent a and end the task at pc, with no broadcast
LaunchEnd(a, fx, pc) ==
    LET e == launcher[a].e
    IN /\ dynamic_agents' = [dynamic_agents EXCEPT ![e][a] = Effects(Ag(a), fx)]
       /\ trace' = [trace EXCEPT ![a] = @ \o fx]
       /\ bc' = [bc EXCEPT ![L(a)] = IdleBc]
       /\ launcher' = [launcher EXCEPT ![a].pc = pc]
       /\ UNCHANGED <<messages, connections, connGen, received, published,
                      resetAt, conn>>

AgentComplete(a) == Msg("agent-complete", a, "")
AgentOutput(a) == Msg("agent-output", a, "")

\* lines 653-670: the finally block.  In docker-wrap mode it reads cmd,
\* which is unbound when the failure came before cmd was assigned (line 544):
\* the UnboundLocalError ends the task before the signal is set.
Finally(a, fx, cmdBound) ==
    IF exec_mode = "docker-wrap" /\ ~cmdBound
    THEN LaunchEnd(a, fx, "crashed")
    ELSE LaunchDo(a, fx \o <<"signal">>, AgentComplete(a), "final_bcast")

\* lines 649-652 followed by the finally block
ExceptException(a, cmdBound) ==
    Finally(a, <<"status:failed", "output:error", "completedAt">>, cmdBound)

\* lines 642-648 followed by the finally block; line 644 appends the
\* "CLI not found" line to the agent's output
ExceptFileNotFound(a) ==
    Finally(a, <<"status:failed", "output:not-found", "status:completed",
                 "completedAt">>, TRUE)

\* lines 426-454: the task starts; sandbox check, status running, first event
LaunchStart(a) ==
    /\ launcher[a].pc = "scheduled"
    /\ IF Blocked
       THEN LaunchDo(a, <<"status:failed", "output:sandbox", "completedAt", "signal">>,
                     AgentComplete(a), "blocked_bcast")
       ELSE LaunchDo(a, <<"status:running">>, AgentOutput(a), "start_bcast")
    /\ UNCHANGED <<agent_counter, proc, spawnReq, waitReq, execVars, questionVars>>

\* lines 441-446: the broadcast of the sandbox failure returned or raised
LaunchBlockedReturn(a) ==
    /\ launcher[a].pc = "blocked_bcast"
    /\ bc[L(a)].phase \in {"done", "raised"}
    /\ LaunchEnd(a, <<>>, "ended")
    /\ UNCHANGED <<agent_counter, proc, spawnReq, waitReq, execVars, questionVars>>

\* lines 451-578: the first broadcast returned; build the prompt, write the
\* sidechannel config (tmpOk: mkstemp succeeds), then await ensure_image in
\* docker-wrap mode or await create_subprocess_exec.  A first broadcast that
\* raised ends the task: line 451 is outside the try block.
LaunchPrepare(a, tmpOk) ==
    /\ launcher[a].pc = "start_bcast"
    /\ bc[L(a)].phase \in {"done", "raised"}
    /\ IF bc[L(a)].phase = "raised"
       THEN LaunchEnd(a, <<>>, "crashed")
       ELSE IF ~tmpOk
       THEN ExceptException(a, FALSE)
       ELSE LaunchEnd(a, <<>>,
                      IF exec_mode = "docker-wrap" THEN "ensure_image" ELSE "spawning")
    /\ UNCHANGED <<agent_counter, proc, spawnReq, waitReq, execVars, questionVars>>

\* lines 558-570: ensure_image returned
EnsureImageReturn(a, ok) ==
    /\ launcher[a].pc = "ensure_image"
    /\ IF ok
       THEN LaunchEnd(a, <<>>, "spawning")
       ELSE LaunchDo(a, <<"status:failed", "output:docker", "completedAt", "signal">>,
                     AgentComplete(a), "imgfail_bcast")
    /\ UNCHANGED <<agent_counter, proc, spawnReq, waitReq, execVars, questionVars>>

\* lines 566-569: the image-failure broadcast returned (return, then the
\* finally block) or raised (except Exception, then the finally block)
ImageFailReturn(a) ==
    /\ launcher[a].pc = "imgfail_bcast"
    /\ bc[L(a)].phase \in {"done", "raised"}
    /\ IF bc[L(a)].phase = "raised"
       THEN ExceptException(a, TRUE)
       ELSE Finally(a, <<>>, TRUE)
    /\ UNCHANGED <<agent_counter, proc, spawnReq, waitReq, execVars, questionVars>>

\* lines 572-578: create_subprocess_exec returned the process, or raised
\* FileNotFoundError ("missing") or another OSError ("oserror")
SubprocessExec(a, outcome) ==
    /\ launcher[a].pc = "spawning"
    /\ CASE outcome = "started" ->
              /\ proc' = [proc EXCEPT ![a] = [NoProc EXCEPT !.state = "running",
                                                           !.stdout = "open"]]
              /\ LaunchEnd(a, <<>>, "reading")
         [] outcome = "missing" -> ExceptFileNotFound(a) /\ UNCHANGED proc
         [] OTHER -> ExceptException(a, TRUE) /\ UNCHANGED proc
    /\ UNCHANGED <<agent_counter, spawnReq, waitReq, execVars, questionVars>>

\* lines 583-629: readline returned a line; it is appended to the agent's
\* output and broadcast as agent-output
ReadLine(a) ==
    /\ launcher[a].pc = "reading"
    /\ proc[a].lines > 0
    /\ proc' = [proc EXCEPT ![a].lines = @ - 1]
    /\ LaunchDo(a, <<"output:line">>, AgentOutput(a), "out_bcast")
    /\ UNCHANGED <<agent_counter, spawnReq, waitReq, execVars, questionVars>>

\* the file-activity task of agent a
F(a) == <<"file", a>>

\* lines 597-616 and 673-723: readline returned an assistant message whose
\* content is a tool_use block on a file (withText: followed by a text
\* block).  _track_file_activity records the activity and creates a task
\* for the file-activity broadcast (line 721, fire-and-forget: the task
\* runs when the event loop next schedules it); the text block is appended
\* to the agent's output and broadcast as agent-output.  Without a text
\* block the loop is back at readline.
ReadAssistant(a, withText) ==
    LET e == launcher[a].e
        task == [IdleBc EXCEPT !.phase = "scheduled", !.sid = e,
                               !.msg = Msg("file-activity", a, "")]
    IN /\ launcher[a].pc = "reading"
       /\ proc[a].lines > 0
       /\ bc[F(a)].phase = "idle"
       /\ proc' = [proc EXCEPT ![a].lines = @ - 1]
       /\ IF withText
          THEN /\ trace' = [trace EXCEPT ![a] = @ \o <<"file-activity", "output:line",
                                                       "agent-output">>]
               /\ \E out \in broadcast_both(Bus, e, AgentOutput(a)) :
                    /\ SetBus(out[1])
                    /\ bc' = [bc EXCEPT ![L(a)] = out[2], ![F(a)] = task]
               /\ launcher' = [launcher EXCEPT ![a].pc = "out_bcast"]
          ELSE /\ trace' = [trace EXCEPT ![a] = @ \o <<"file-activity">>]
               /\ bc' = [bc EXCEPT ![F(a)] = task]
               /\ UNCHANGED <<messages, connections, connGen, received, published,
                              launcher>>
       /\ UNCHANGED <<resetAt, conn, dynamic_agents, agent_counter, spawnReq, waitReq,
                      execVars, questionVars>>

\* line 721: the event loop runs the task: store.broadcast of the
\* file-activity event on the task stream, up to its first send or its end
FileActivityRun(a) ==
    /\ bc[F(a)].phase = "scheduled"
    /\ \E out \in broadcast(Bus, bc[F(a)].sid, bc[F(a)].msg) :
         /\ SetBus(out[1])
         /\ bc' = [bc EXCEPT ![F(a)] = out[2]]
    /\ UNCHANGED <<resetAt, conn, execVars, agentVars, questionVars>>

\* the broadcast of the task returned or raised; nothing awaits the task
FileActivityEnd(a) ==
    /\ bc[F(a)].phase \in {"done", "raised"}
    /\ bc' = [bc EXCEPT ![F(a)] = IdleBc]
    /\ UNCHANGED <<messages, connections, connGen, received, published, resetAt, conn,
                   execVars, agentVars, questionVars>>

\* the agent-output broadcast returned (back to readline) or raised: the
\* RuntimeError leaves read_agent_stream and wait_for, to except Exception
OutputReturn(a) ==
    /\ launcher[a].pc = "out_bcast"
    /\ bc[L(a)].phase \in {"done", "raised"}
    /\ IF bc[L(a)].phase = "raised"
       THEN ExceptException(a, TRUE)
       ELSE LaunchEnd(a, <<>>, "reading")
    /\ UNCHANGED <<agent_counter, proc, spawnReq, waitReq, execVars, questionVars>>

\* lines 584-585, 637: readline returned b"" (end of file); await process.wait()
ReadEOF(a) ==
    /\ launcher[a].pc = "reading"
    /\ proc[a].lines = 0
    /\ proc[a].stdout = "closed"
    /\ LaunchEnd(a, <<>>, "waiting")
    /\ UNCHANGED <<agent_counter, proc, spawnReq, waitReq, execVars, questionVars>>

\* lines 632-637: AGENT_TIMEOUT passed while read_agent_stream was suspended
\* (in readline or in a send of its broadcast): kill, then await process.wait()
ReadTimeout(a) ==
    /\ \/ launcher[a].pc = "reading"
       \/ launcher[a].pc = "out_bcast" /\ bc[L(a)].phase = "sending"
    /\ proc' = [proc EXCEPT ![a].killed = TRUE]
    /\ LaunchEnd(a, <<"output:timeout">>, "waiting")
    /\ UNCHANGED <<agent_counter, spawnReq, waitReq, execVars, questionVars>>

\* lines 637-640 and the finally block: the process has exited
WaitReturn(a) ==
    /\ launcher[a].pc = "waiting"
    /\ proc[a].state = "exited"
    /\ Finally(a, <<IF proc[a].rc = 0 THEN "status:completed" ELSE "status:failed",
                    "completedAt">>, TRUE)
    /\ UNCHANGED <<agent_counter, proc, spawnReq, waitReq, execVars, questionVars>>

\* lines 666-670: the agent-complete broadcast returned or raised; the task ends
LaunchFinalReturn(a) ==
    /\ launcher[a].pc = "final_bcast"
    /\ bc[L(a)].phase \in {"done", "raised"}
    /\ LaunchEnd(a, <<>>, "ended")
    /\ UNCHANGED <<agent_counter, proc, spawnReq, waitReq, execVars, questionVars>>

\* The launcher task is cancelled (task.cancel(), or the event loop shutting
\* down) while suspended.  CancelledError is not an Exception: inside the
\* try block only the finally block runs; elsewhere the task just ends.
LaunchCancel(a) ==
    /\ launcher[a].pc \in {"scheduled", "start_bcast", "blocked_bcast", "ensure_image",
                           "spawning", "reading", "out_bcast", "waiting",
                           "imgfail_bcast", "final_bcast"}
    /\ IF launcher[a].pc \in {"ensure_image", "spawning", "reading", "out_bcast",
                              "waiting", "imgfail_bcast"}
       THEN Finally(a, <<>>, TRUE)
       ELSE LaunchEnd(a, <<>>, "cancelled")
    /\ UNCHANGED <<agent_counter, proc, spawnReq, waitReq, execVars, questionVars>>

\* ---- the agent's process (environment)
ProcEmit(a) ==
    /\ proc[a].state = "running" /\ proc[a].stdout = "open"
    /\ proc[a].emitted < MaxLines
    /\ proc' = [proc EXCEPT ![a].lines = @ + 1, ![a].emitted = @ + 1]
    /\ UNCHANGED <<busVars, execVars, agent_counter, dynamic_agents, launcher, trace,
                   spawnReq, waitReq, questionVars>>

\* the process closes its stdout and keeps running
ProcCloseStdout(a) ==
    /\ proc[a].state = "running" /\ proc[a].stdout = "open"
    /\ proc' = [proc EXCEPT ![a].stdout = "closed"]
    /\ UNCHANGED <<busVars, execVars, agent_counter, dynamic_agents, launcher, trace,
                   spawnReq, waitReq, questionVars>>

\* the process exits by itself with return code rc
ProcExit(a, rc) ==
    /\ proc[a].state = "running" /\ ~proc[a].killed
    /\ proc' = [proc EXCEPT ![a].state = "exited", ![a].stdout = "closed", ![a].rc = rc]
    /\ UNCHANGED <<busVars, execVars, agent_counter, dynamic_agents, launcher, trace,
                   spawnReq, waitReq, questionVars>>

\* the process dies of the SIGKILL sent by process.kill()
ProcKilled(a) ==
    /\ proc[a].state = "running" /\ proc[a].killed
    /\ proc' = [proc EXCEPT ![a].state = "exited", ![a].stdout = "closed", ![a].rc = -9]
    /\ UNCHANGED <<busVars, execVars, agent_counter, dynamic_agents, launcher, trace,
                   spawnReq, waitReq, questionVars>>

(***************************************************************************)
(* Pending questions: routes/internal.py, and the clarification-response   *)
(* frames of the two websocket handlers.                                   *)
(***************************************************************************)
QIds == {1, 2, 3}
RelayQIds == {1, 2}
ObjIds == 1..MaxAsks
Answers == {"postgres", "sqlite"}
AskSlots == 1..(MaxAsks + 1)
GetSlots == 1..MaxGets

NoObj == [id |-> 0, execution_id |-> 0, answer |-> NoAns, event |-> FALSE, writes |-> 0]
NewGet == [pc |-> "new", q |-> 0, obj |-> 0, resp |-> "", late |-> FALSE]

\* list.remove(x): delete the first occurrence of x
RECURSIVE RemoveFirst(_, _)
RemoveFirst(list, x) ==
    IF list = <<>> THEN <<>>
    ELSE IF Head(list) = x THEN Tail(list)
    ELSE <<Head(list)>> \o RemoveFirst(Tail(list), x)

InSeq(list, x) == \E j \in 1..Len(list) : list[j] = x

\* internal.py 23-32 cleanup_question, as the new values of the table, the
\* per-execution index and the identities of the index lists
CleanupTable(q) == [pending_questions EXCEPT ![q] = None]

CleanupIndex(q) ==
    LET o == pending_questions[q]
        e == qobj[o].execution_id
        qlist == pending_questions_by_execution[e]
    IN IF o = None \/ ~InSeq(qlist, q)
       THEN pending_questions_by_execution
       ELSE [pending_questions_by_execution EXCEPT ![e] = RemoveFirst(qlist, q)]

CleanupGen(q) ==
    LET o == pending_questions[q]
        e == qobj[o].execution_id
        qlist == pending_questions_by_execution[e]
    IN IF o # None /\ InSeq(qlist, q) /\ RemoveFirst(qlist, q) = <<>>
       THEN [qlistGen EXCEPT ![e] = @ + 1]
       ELSE qlistGen

\* entry["answer"] = answer; entry["event"].set(); cleanup_question(qid)
AcceptAnswer(q, ans) ==
    LET o == pending_questions[q]
    IN /\ qobj' = [qobj EXCEPT ![o].answer = ans, ![o].event = TRUE,
                               ![o].writes = @ + 1]
       /\ pending_questions' = CleanupTable(q)
       /\ pending_questions_by_execution' = CleanupIndex(q)
       /\ qlistGen' = CleanupGen(q)

PendingCount == Cardinality({q \in QIds : pending_questions[q] # None})

\* TableFull comparing with > instead of >=
TableFullOffByOne == PendingCount > MAX_PENDING_QUESTIONS

\* internal.py 49: the cap on the global table of pending questions
TableFull == PendingCount >= MAX_PENDING_QUESTIONS

\* internal.py 46-76 POST /question (request slot k): 429 at a full table;
\* otherwise store the entry, index it and start the clarification broadcast
post_question(k, q, e) ==
    LET p == <<"ask", k>>
        o == nextObj + 1
    IN /\ bc[p].phase = "idle"
       /\ IF TableFull
          THEN /\ askResp' = [askResp EXCEPT ![k] = 429]
               /\ UNCHANGED <<busVars, pending_questions,
                              pending_questions_by_execution, qobj, nextObj,
                              qlistGen, gets, lastObj, delivered>>
          ELSE /\ nextObj < MaxAsks
               /\ nextObj' = o
               /\ qobj' = [qobj EXCEPT ![o] =
                     [NoObj EXCEPT !.id = q, !.execution_id = e]]
               /\ pending_questions' = [pending_questions EXCEPT ![q] = o]
               /\ pending_questions_by_execution' =
                     [pending_questions_by_execution EXCEPT ![e] = Append(@, q)]
               /\ lastObj' = [lastObj EXCEPT ![q] = o]
               /\ askResp' = [askResp EXCEPT ![k] = 0]
               /\ \E out \in broadcast(Bus, e, Msg("clarification", q, "")) :
                    /\ SetBus(out[1])
                    /\ bc' = [bc EXCEPT ![p] = out[2]]
               /\ UNCHANGED <<resetAt, conn, qlistGen, gets, delivered>>
       /\ UNCHANGED <<execVars, agentVars, ansResp, authResp, toolResp>>

\* internal.py 76: the clarification broadcast returned (200) or raised (500)
PostQuestionReturn(k) ==
    /\ bc[<<"ask", k>>].phase \in {"done", "raised"}
    /\ bc' = [bc EXCEPT ![<<"ask", k>>] = IdleBc]
    /\ askResp' = [askResp EXCEPT ![k] =
                     IF bc[<<"ask", k>>].phase = "done" THEN 200 ELSE 500]
    /\ UNCHANGED <<messages, connections, connGen, received, published, resetAt, conn,
                   execVars, agentVars, pending_questions,
                   pending_questions_by_execution, qobj, nextObj, qlistGen, gets,
                   lastObj, delivered, ansResp, authResp, toolResp>>

\* internal.py 79-96 GET /question/{id}/answer: 404, the answer, or block on
\* the entry's event.  The asking side polls one GET at a time per question.
get_answer(g, q) ==
    /\ gets[g].pc = "new"
    /\ \A h \in GetSlots : ~(gets[h].pc = "blocked" /\ gets[h].q = q)
    /\ LET o == pending_questions[q]
           last == lastObj[q]
       IN /\ gets' = [gets EXCEPT ![g] =
               IF o = None
               THEN [pc |-> "replied", q |-> q, obj |-> 0, resp |-> "404",
                     late |-> last # None /\ qobj[last].writes > 0
                              /\ ~delivered[last]]
               ELSE IF qobj[o].answer # NoAns
               THEN [pc |-> "replied", q |-> q, obj |-> o, resp |-> qobj[o].answer,
                     late |-> FALSE]
               ELSE [pc |-> "blocked", q |-> q, obj |-> o, resp |-> "",
                     late |-> FALSE]]
          /\ delivered' = IF o # None /\ qobj[o].answer # NoAns
                          THEN [delivered EXCEPT ![o] = TRUE] ELSE delivered
    /\ UNCHANGED <<busVars, execVars, agentVars, pending_questions,
                   pending_questions_by_execution, qobj, nextObj, askResp, ansResp, authResp, toolResp,
                   qlistGen, lastObj>>

\* internal.py 93-94: the event was set; return the entry's answer
GetAnswerWake(g) ==
    /\ gets[g].pc = "blocked"
    /\ qobj[gets[g].obj].event
    /\ gets' = [gets EXCEPT ![g].pc = "replied", ![g].resp = qobj[gets[g].obj].answer]
    /\ delivered' = [delivered EXCEPT ![gets[g].obj] = TRUE]
    /\ UNCHANGED <<busVars, execVars, agentVars, pending_questions,
                   pending_questions_by_execution, qobj, nextObj, askResp, ansResp, authResp, toolResp,
                   qlistGen, lastObj>>

\* internal.py 95-96: 30 seconds passed without the event: 204
GetAnswerTimeout(g) ==
    /\ gets[g].pc = "blocked"
    /\ ~qobj[gets[g].obj].event
    /\ gets' = [gets EXCEPT ![g].pc = "replied", ![g].resp = "204"]
    /\ UNCHANGED <<busVars, execVars, agentVars, pending_questions,
                   pending_questions_by_execution, qobj, nextObj, askResp, ansResp, authResp, toolResp,
                   qlistGen, lastObj,
                   delivered>>

\* the response has gone out; the request slot serves the next GET
GetAnswerDone(g) ==
    /\ gets[g].pc = "replied"
    /\ gets' = [gets EXCEPT ![g] = NewGet]
    /\ UNCHANGED <<busVars, execVars, agentVars, pending_questions,
                   pending_questions_by_execution, qobj, nextObj, askResp, ansResp, authResp, toolResp,
                   qlistGen, lastObj,
                   delivered>>

\* post_answer answering a question that is not in the table with ok
post_answer_always_ok(q, ans) ==
    /\ ansResp' = [ansResp EXCEPT ![q] = 200]
    /\ IF pending_questions[q] = None
       THEN UNCHANGED <<pending_questions, pending_questions_by_execution, qobj,
                        qlistGen>>
       ELSE AcceptAnswer(q, ans)
    /\ UNCHANGED <<busVars, execVars, agentVars, nextObj, askResp, authResp, toolResp, gets,
                   lastObj, delivered>>

\* internal.py 99-111 POST /question/{id}/answer: 404 when the question is
\* not in the table; otherwise record the answer, set the event, clean up
post_answer(q, ans) ==
    /\ IF pending_questions[q] = None
       THEN /\ ansResp' = [ansResp EXCEPT ![q] = 404]
            /\ UNCHANGED <<pending_questions, pending_questions_by_execution, qobj,
                           qlistGen>>
       ELSE /\ ansResp' = [ansResp EXCEPT ![q] = 200]
            /\ AcceptAnswer(q, ans)
    /\ UNCHANGED <<busVars, execVars, agentVars, nextObj, askResp, authResp, toolResp, gets,
                   lastObj, delivered>>

\* ws.py 82-89: clarification-response frame on the task websocket
\* conversations.py 520-529: the same frame on the console websocket
WsAnswer(c, q, ans) ==
    /\ conn[c].pc = "open"
    /\ conn[c].peer = "open"
    /\ LET o == pending_questions[q]
       IN /\ o # None
          /\ qobj[o].answer = NoAns
          /\ conn[c].sid \in Tasks => qobj[o].execution_id = conn[c].sid
    /\ AcceptAnswer(q, ans)
    /\ UNCHANGED <<busVars, execVars, agentVars, nextObj, askResp, ansResp, authResp, toolResp,
                   gets, lastObj, delivered>>

(***************************************************************************)
(* The task executor: routes/executions.py _limited_run (REST entry) and   *)
(* routes/conversations.py _run_with_fallback (conversation entry), around *)
(* run_dynamic_execution and the static run_execution.  The orchestrator   *)
(* process is the environment: it prints lines and exits.                  *)
(***************************************************************************)
NoExec == [status |-> "absent", pc |-> "none", entry |-> "", fallbacks |-> 0]
\* execution["pipeline"] before the pipeline runs: nothing the model reads
NoPipeline == [wave |-> 0, steps |-> <<>>]
\* no request has been refused for its token
NoAuth == [route |-> "", status |-> 0]
\* no bridge has answered anything
NoTool == [bridge |-> "", method |-> "", tool |-> "", tools |-> {}, handled |-> FALSE,
           before |-> <<0, 0>>]
\* no output line has been parsed
NoFinding == [line |-> <<>>, result |-> [severity |-> "", type |-> ""]]
X(e) == <<"exec", e>>
Modes == {"native", "host-override", "docker-wrap", "blocked"}

\* the executor of e sets the task status, broadcasts m on the task stream
\* and, when both, on the linked console stream, and goes to pc
ExecDo(e, status, m, both, pc) ==
    /\ exec' = [exec EXCEPT ![e].status = status, ![e].pc = pc]
    /\ \E out \in BcStart(Bus, e, m, IF both THEN e ELSE None) :
         /\ SetBus(out[1])
         /\ bc' = [bc EXCEPT ![X(e)] = out[2]]

ExecGo(e, status, pc) ==
    /\ exec' = [exec EXCEPT ![e].status = status, ![e].pc = pc]
    /\ bc' = [bc EXCEPT ![X(e)] = IdleBc]
    /\ UNCHANGED <<messages, connections, connGen, received, published>>

BcReturned(p) == bc[p].phase \in {"done", "raised"}

\* executions.py 124-197: POST /api/executions creates the task record and
\* the _limited_run task
SubmitRest(e) ==
    /\ exec[e].status = "absent"
    /\ \A f \in Tasks : f < e => exec[f].status # "absent"
    /\ exec' = [exec EXCEPT ![e] = [status |-> "queued", pc |-> "start",
                                    entry |-> "rest", fallbacks |-> 0]]
    /\ UNCHANGED <<busVars, activeExecutionId, sandbox_status, pipeline, finding, agentVars, questionVars>>

\* conversations.py 300-374 _handle_user_message: create the task record,
\* link it to the conversation, create the _run_with_fallback task
SubmitConv(cv, e) ==
    /\ exec[e].status = "absent"
    /\ \A f \in Tasks : f < e => exec[f].status # "absent"
    /\ exec' = [exec EXCEPT ![e] = [status |-> "queued", pc |-> "start",
                                    entry |-> "conv", fallbacks |-> 0]]
    /\ activeExecutionId' = [activeExecutionId EXCEPT ![cv] = e]
    /\ UNCHANGED <<busVars, sandbox_status, pipeline, finding, agentVars, questionVars>>

\* the tasks whose executor is running: its task has entered the executor
\* (for the REST entry: has acquired the semaphore) and has not left it
Executing == {e \in Tasks : exec[e].pc \notin {"none", "start", "done"}}

\* executions.py 31: the _limited_run tasks inside `async with
\* _execution_semaphore`; the conversation entry does not use the semaphore
SemaphoreHolders == {e \in Executing : exec[e].entry = "rest"}

\* executions.py 31 / conversations.py 343, then dynamic_orchestrator.py
\* 172-188: the executor task starts, the REST entry once it has acquired
\* the semaphore; sandbox check; blocked: status failed and the [Sandbox]
\* output line; otherwise status running and the phase event
DynStart(e) ==
    /\ exec[e].pc = "start"
    /\ exec[e].entry = "rest" => Cardinality(SemaphoreHolders) < EXECUTION_SEMAPHORE
    /\ IF Blocked
       THEN ExecDo(e, "failed", Msg("output", e, "sandbox"), TRUE, "dyn_fail_out")
       ELSE ExecDo(e, "running", Msg("phase", e, "running"), FALSE, "dyn_phase")
    /\ UNCHANGED <<resetAt, conn, activeExecutionId, sandbox_status, pipeline, finding, agentVars, questionVars>>
\* dynamic_orchestrator.py 190-273: the phase broadcast returned.  In
\* docker-wrap mode ensure_image may fail ("imagefail", lines 251-254);
\* create_subprocess_exec starts the orchestrator or raises
\* FileNotFoundError ("missing", lines 396-400: status queued, re-raised)
DynLaunch(e, outcome) ==
    /\ exec[e].pc = "dyn_phase"
    /\ bc[X(e)].phase = "done"
    /\ outcome = "imagefail" => exec_mode = "docker-wrap"
    /\ IF outcome = "imagefail"
       THEN ExecDo(e, "failed", Msg("output", e, "docker"), TRUE, "dyn_img_out")
       ELSE IF outcome = "missing" THEN ExecGo(e, "queued", "dyn_returned")
       ELSE ExecGo(e, exec[e].status, "dyn_read")
    /\ UNCHANGED <<resetAt, conn, activeExecutionId, sandbox_status, pipeline, finding, agentVars, questionVars>>
\* dynamic_orchestrator.py 281-326: a line of the orchestrator's output
DynLine(e) ==
    /\ exec[e].pc = "dyn_read"
    /\ Len(published[e]) - resetAt[e] < MaxPublish
    /\ ExecDo(e, exec[e].status, Msg("output", e, "orchestrator"), TRUE, "dyn_out")
    /\ UNCHANGED <<resetAt, conn, activeExecutionId, sandbox_status, pipeline, finding, agentVars, questionVars>>
\* the output broadcast returned: next readline
DynLineReturn(e) ==
    /\ exec[e].pc = "dyn_out"
    /\ bc[X(e)].phase = "done"
    /\ ExecGo(e, exec[e].status, "dyn_read")
    /\ UNCHANGED <<resetAt, conn, activeExecutionId, sandbox_status, pipeline, finding, agentVars, questionVars>>
\* dynamic_orchestrator.py 335-340: ORCHESTRATOR_TIMEOUT passed while
\* read_stream was suspended (in readline or in a send of its broadcast):
\* kill and the timed-out output line
DynTimeout(e) ==
    /\ \/ exec[e].pc = "dyn_read"
       \/ exec[e].pc = "dyn_out" /\ bc[X(e)].phase = "sending"
    /\ ExecDo(e, exec[e].status, Msg("output", e, "timeout"), TRUE, "dyn_timeout")
    /\ UNCHANGED <<resetAt, conn, activeExecutionId, sandbox_status, pipeline, finding, agentVars, questionVars>>
\* dynamic_orchestrator.py 342-379: process.wait() returned, the orchestrator
\* having exited with rc by itself or killed at the timeout; final status
\* and the complete event
DynExit(e, rc) ==
    /\ \/ exec[e].pc = "dyn_read"
       \/ exec[e].pc = "dyn_timeout" /\ bc[X(e)].phase = "done" /\ rc # 0
    /\ LET st == IF rc = 0 THEN "completed" ELSE "failed"
       IN ExecDo(e, st, Msg("complete", e, st), TRUE, "dyn_complete")
    /\ UNCHANGED <<resetAt, conn, activeExecutionId, sandbox_status, pipeline, finding, agentVars, questionVars>>
\* dynamic_orchestrator.py 178-183, 255-260, 406-411: after the failure
\* output line, the complete event with status failed
DynFailComplete(e) ==
    /\ exec[e].pc \in {"dyn_fail_out", "dyn_img_out"}
    /\ bc[X(e)].phase = "done"
    /\ ExecDo(e, exec[e].status, Msg("complete", e, "failed"), TRUE,
              IF exec[e].pc = "dyn_img_out" THEN "dyn_img_complete"
              ELSE "dyn_fail_complete")
    /\ UNCHANGED <<resetAt, conn, activeExecutionId, sandbox_status, pipeline, finding, agentVars, questionVars>>
\* dynamic_orchestrator.py 380-394: after the complete event of a run that
\* reached process exit, the result summary goes to the linked conversation
\* as conversation-update; then, and after the failure paths,
\* run_dynamic_execution returns
DynReturn(e) ==
    /\ exec[e].pc \in {"dyn_complete", "dyn_update", "dyn_fail_complete",
                       "dyn_img_complete"}
    /\ bc[X(e)].phase = "done"
    /\ LET linked == {cv \in Convs : activeExecutionId[cv] = e}
       IN IF exec[e].pc = "dyn_complete" /\ linked # {}
          THEN /\ exec' = [exec EXCEPT ![e].pc = "dyn_update"]
               /\ \E cv \in linked :
                  \E out \in broadcast_console(Bus, cv,
                                               Msg("conversation-update", e, "")) :
                    /\ SetBus(out[1])
                    /\ bc' = [bc EXCEPT ![X(e)] = out[2]]
          ELSE ExecGo(e, exec[e].status, "dyn_returned")
    /\ UNCHANGED <<resetAt, conn, activeExecutionId, sandbox_status, pipeline, finding, agentVars, questionVars>>
\* a broadcast of run_dynamic_execution raised.  Inside the try block
\* (lines 217-395) the handler of lines 401-405 runs: status failed and the
\* [Orchestrator error] line; outside it (the phase event, the sandbox
\* failure, the handler itself) the exception leaves run_dynamic_execution.
DynRaised(e) ==
    /\ exec[e].pc \in {"dyn_phase", "dyn_out", "dyn_timeout", "dyn_complete",
                       "dyn_update", "dyn_img_out", "dyn_img_complete",
                       "dyn_fail_out", "dyn_fail_complete"}
    /\ bc[X(e)].phase = "raised"
    /\ IF exec[e].pc \in {"dyn_phase", "dyn_fail_out", "dyn_fail_complete"}
       THEN ExecGo(e, exec[e].status, "dyn_returned")
       ELSE ExecDo(e, "failed", Msg("output", e, "error"), TRUE, "dyn_fail_out")
    /\ UNCHANGED <<resetAt, conn, activeExecutionId, sandbox_status, pipeline, finding, agentVars, questionVars>>
\* conversations.py 366-369: the conversation entry pops the replay buffer
\* of the task and of every conversation linked to it
PoppedStreams(e) ==
    IF exec[e].entry = "conv"
    THEN {e} \cup {cv \in Convs : activeExecutionId[cv] = e}
    ELSE {}

\* NeedsFallback handing every task to the static pipeline
NeedsFallbackAlways(e) == TRUE

\* executions.py 39-40 / conversations.py 350-351: the task is handed to the
\* static pipeline when its status after the dynamic run is not completed
NeedsFallback(e) == exec[e].status # "completed"

\* executions.py 39-44 / conversations.py 350-370: after the dynamic run,
\* a task that is not completed is reset and handed to run_execution
\* (orchestrator.py 223-255: sandbox check, status running, phase event)
Fallback(e) ==
    /\ exec[e].pc = "dyn_returned"
    /\ IF ~NeedsFallback(e)
       THEN /\ ExecGo(e, "completed", "done")
            /\ UNCHANGED <<resetAt, conn>>
       ELSE LET pop == PoppedStreams(e)
                b0 == [Bus EXCEPT !.msgs = [s \in Streams |->
                                              IF s \in pop THEN <<>> ELSE messages[s]]]
                st == IF Blocked THEN "failed" ELSE "running"
                m == IF Blocked THEN Msg("complete", e, "failed")
                     ELSE Msg("phase", e, "running")
                pc == IF Blocked THEN "static_complete"
                      ELSE "static_phase"
            IN /\ resetAt' = [s \in Streams |->
                                IF s \in pop THEN Len(published[s]) ELSE resetAt[s]]
               /\ conn' = [c \in Conns |->
                             IF conn[c].pc = "replay" /\ conn[c].sid \in pop
                                /\ ~conn[c].detached
                             THEN [conn[c] EXCEPT !.detached = TRUE,
                                                  !.frozen = messages[conn[c].sid]]
                             ELSE conn[c]]
               /\ exec' = [exec EXCEPT ![e].status = st, ![e].pc = pc,
                                        ![e].fallbacks = @ + 1]
               /\ \E out \in BcStart(b0, e, m, e) :
                    /\ SetBus(out[1])
                    /\ bc' = [bc EXCEPT ![X(e)] = out[2]]
    /\ UNCHANGED <<activeExecutionId, sandbox_status, pipeline, finding, agentVars, questionVars>>

\* orchestrator.py 251-278: the static pipeline's phases publish their events
StaticRun(e) ==
    /\ exec[e].pc = "static_phase"
    /\ BcReturned(X(e))
    /\ IF bc[X(e)].phase = "raised"
       THEN ExecGo(e, exec[e].status, "done")
       ELSE ExecGo(e, exec[e].status, "static_run")
    /\ UNCHANGED <<resetAt, conn, activeExecutionId, sandbox_status, pipeline, finding, agentVars, questionVars>>

StaticLine(e) ==
    /\ exec[e].pc = "static_run"
    /\ Len(published[e]) - resetAt[e] < MaxPublish
    /\ ExecDo(e, exec[e].status, Msg("output", e, "phase"), TRUE, "static_out")
    /\ UNCHANGED <<resetAt, conn, activeExecutionId, sandbox_status, pipeline, finding, agentVars, questionVars>>

\* the phase output broadcast returned, or raised (orchestrator.py 285-300:
\* status failed and the complete event)
StaticLineReturn(e) ==
    /\ exec[e].pc = "static_out"
    /\ BcReturned(X(e))
    /\ IF bc[X(e)].phase = "raised"
       THEN ExecDo(e, "failed", Msg("complete", e, "failed"), TRUE, "static_complete")
       ELSE ExecGo(e, exec[e].status, "static_run")
    /\ UNCHANGED <<resetAt, conn, activeExecutionId, sandbox_status, pipeline, finding, agentVars, questionVars>>

\* orchestrator.py 280-283: all phases ran; status completed, complete event
StaticFinish(e) ==
    /\ exec[e].pc = "static_run"
    /\ ExecDo(e, "completed", Msg("complete", e, "completed"), TRUE, "static_complete")
    /\ UNCHANGED <<resetAt, conn, activeExecutionId, sandbox_status, pipeline, finding, agentVars, questionVars>>

StaticReturn(e) ==
    /\ exec[e].pc = "static_complete"
    /\ BcReturned(X(e))
    /\ ExecGo(e, exec[e].status, "done")
    /\ UNCHANGED <<resetAt, conn, activeExecutionId, sandbox_status, pipeline, finding, agentVars, questionVars>>

(***************************************************************************)
(* services/orchestrator.py run_execution and _run_phase, phase by phase.  *)
(* The actions above show the static pipeline as its streams see it; the   *)
(* actions below follow its steps and waves.  They are written for a task  *)
(* whose streams nobody subscribes to, so that every broadcast returns     *)
(* without suspending, and of the events of a phase they keep the phase    *)
(* events.                                                                 *)
(***************************************************************************)
\* executions.py 66-70, 127-140: the group of every step of the pipeline,
\* here that of the workflow feature-eval: plan, then develop and
\* business-eval in parallel, then report
PipelineGroups == <<0, 1, 1, 2>>

\* tmp is the sidechannel config file of the step's agent invocation:
\* "none" (not written), "written" or "deleted"
NewStep(g) == [group |-> g, status |-> "pending", pc |-> "idle", outcome |-> "",
               tmp |-> "none"]

\* how the agent of a phase ends: it exits with 0 or with another code
\* (orchestrator.py 728-740), it is killed at the timeout of the phase
\* (lines 387-397), it cannot be started and the phase is simulated (lines
\* 588-590, 400-402), reading its output raises and the error is swallowed
\* (lines 701-702), or an exception leaves _try_real_orchestrator (for
\* instance OSError of NamedTemporaryFile, line 544)
Outcomes == {"exit0", "nonzero", "timeout", "nostart", "readerror", "raise"}

\* the steps of the group with index g
WaveSteps(pl, g) == {i \in DOMAIN pl.steps : pl.steps[i].group = g}

\* the group run_execution is waiting for (pl.wave counts the groups begun)
CurrentWave(pl) == WaveSteps(pl, pl.wave - 1)

\* nobody is subscribed to the streams of e
Quiet(e) ==
    /\ connections[e] = {}
    /\ \A cv \in Convs : activeExecutionId[cv] = e => connections[cv] = {}

\* broadcast_both of each message of msgs in turn, on streams without
\* subscribers
RECURSIVE PublishAll(_, _, _)
PublishAll(b, e, msgs) ==
    IF msgs = <<>> THEN b
    ELSE LET out == CHOOSE o \in broadcast_both(b, e, Head(msgs)) : TRUE
         IN PublishAll(out[1], e, Tail(msgs))

\* orchestrator.py 314-321: the step is running, the phase event
StartPhase(pl, i) ==
    [pl EXCEPT !.steps[i].status = "running", !.steps[i].pc = "body"]

\* lines 272-283: run_execution goes on with the next group: a group of one
\* step is run inline, up to the first suspension of the phase; the steps
\* of a larger group become tasks of asyncio.gather; after the last group
\* the task is completed
Advance(e, pl) ==
    LET g == pl.wave
        S == WaveSteps(pl, g)
        pl1 == [pl EXCEPT !.wave = g + 1]
    IN IF S = {}
       THEN [pl |-> pl, status |-> "completed", pc |-> "static_complete",
             msgs |-> <<Msg("complete", e, "completed")>>]
       ELSE IF Cardinality(S) = 1
       THEN LET i == CHOOSE i \in S : TRUE
            IN [pl |-> StartPhase(pl1, i), status |-> "running", pc |-> "static_waves",
                msgs |-> <<Msg("phase", i, "running")>>]
       ELSE [pl |-> [pl1 EXCEPT !.steps = [i \in DOMAIN pl.steps |->
                                             IF i \in S
                                             THEN [pl.steps[i] EXCEPT !.pc = "scheduled"]
                                             ELSE pl.steps[i]]],
             status |-> "running", pc |-> "static_waves", msgs |-> <<>>]

\* lines 285-300: an exception reached run_execution: the task is failed,
\* every step that is running is marked failed, the complete event
ExceptRun(e, pl) ==
    [pl |-> [pl EXCEPT !.steps = [i \in DOMAIN pl.steps |->
                                     IF pl.steps[i].status = "running"
                                     THEN [pl.steps[i] EXCEPT !.status = "failed"]
                                     ELSE pl.steps[i]]],
     status |-> "failed", pc |-> "static_complete",
     msgs |-> <<Msg("complete", e, "failed")>>]

\* the executor of e goes on as r says, after publishing pre
ApplyRun(e, r, pre) ==
    /\ exec' = [exec EXCEPT ![e].status = r.status, ![e].pc = r.pc]
    /\ pipeline' = [pipeline EXCEPT ![e] = r.pl]
    /\ SetBus(PublishAll(Bus, e, pre \o r.msgs))
    /\ UNCHANGED <<resetAt, conn, bc, activeExecutionId, sandbox_status, finding,
                   agentVars, questionVars>>

\* lines 251-272: the phase event of the task returned; the groups are
\* built and the first group begins
PipelineStart(e) ==
    /\ exec[e].pc = "static_phase"
    /\ bc[X(e)].phase = "done"
    /\ Quiet(e)
    /\ LET pl0 == [wave |-> 0,
                   steps |-> [i \in DOMAIN PipelineGroups |-> NewStep(PipelineGroups[i])]]
       IN ApplyRun(e, Advance(e, pl0), <<>>)

\* a task of asyncio.gather starts its phase; the event loop starts the
\* tasks in the order in which gather created them
PhaseStart(e, i) ==
    /\ i \in DOMAIN pipeline[e].steps
    /\ pipeline[e].steps[i].pc = "scheduled"
    /\ \A j \in 1..(i - 1) : pipeline[e].steps[j].pc # "scheduled"
    /\ Quiet(e)
    /\ pipeline' = [pipeline EXCEPT ![e] = StartPhase(@, i)]
    /\ SetBus(PublishAll(Bus, e, <<Msg("phase", i, "running")>>))
    /\ UNCHANGED <<resetAt, conn, bc, activeExecutionId, exec, sandbox_status,
                   finding, agentVars, questionVars>>

\* orchestrator.py 544-549, 565-590, 696-717: what has become of the
\* sidechannel config file when the invocation ends.  NamedTemporaryFile
\* (delete=False) writes it before the process is started; os.unlink (line
\* 715) is reached only when the read loop was left without cancellation.
\* The returns after a failed ensure_image (line 572) and a failed
\* create_subprocess_exec (line 590) and the re-raised CancelledError of
\* the timeout (lines 696-700) leave the function before line 715.
TmpAfter(outcome) ==
    CASE outcome \in {"exit0", "nonzero", "readerror"} -> "deleted"
      [] outcome \in {"timeout", "nostart"} -> "written"
      [] OTHER -> "none"

\* WaveDone joining the wave as soon as one of its steps has ended
WaveDoneAny(pl) ==
    /\ \A i \in CurrentWave(pl) : pl.steps[i].pc \in {"body", "done"}
    /\ \E i \in CurrentWave(pl) : pl.steps[i].pc = "done"

\* lines 276-278: asyncio.gather returns when every task has returned
WaveDone(pl) == \A i \in CurrentWave(pl) : pl.steps[i].pc = "done"

\* lines 380-467: the body of the phase ends with outcome and the finally
\* block marks the step completed and publishes the phase event; an
\* exception then goes on to the caller.  A step run inline returns to
\* run_execution in the same run.
PhaseBody(e, i, outcome) ==
    /\ i \in DOMAIN pipeline[e].steps
    /\ pipeline[e].steps[i].pc = "body"
    /\ Quiet(e)
    /\ LET pl == pipeline[e]
           pl1 == [pl EXCEPT !.steps[i].status = "completed",
                             !.steps[i].pc = IF outcome = "raise" THEN "raised"
                                             ELSE "done",
                             !.steps[i].outcome = outcome,
                             !.steps[i].tmp = TmpAfter(outcome)]
           ev == <<Msg("phase", i, "completed")>>
       IN IF Cardinality(WaveSteps(pl, pl.steps[i].group)) = 1
          THEN IF outcome = "raise" THEN ApplyRun(e, ExceptRun(e, pl1), ev)
               ELSE ApplyRun(e, Advance(e, pl1), ev)
          ELSE /\ pipeline' = [pipeline EXCEPT ![e] = pl1]
               /\ SetBus(PublishAll(Bus, e, ev))
               /\ UNCHANGED <<resetAt, conn, bc, activeExecutionId, exec,
                              sandbox_status, finding, agentVars, questionVars>>

\* lines 276-278: gather has returned; the next group
WaveJoin(e) ==
    /\ exec[e].pc = "static_waves"
    /\ Cardinality(CurrentWave(pipeline[e])) > 1
    /\ WaveDone(pipeline[e])
    /\ Quiet(e)
    /\ ApplyRun(e, Advance(e, pipeline[e]), <<>>)

\* lines 276-278, 285-300: gather raises the first exception of its tasks
\* to run_execution and leaves the other tasks running
WaveRaise(e) ==
    /\ exec[e].pc = "static_waves"
    /\ Cardinality(CurrentWave(pipeline[e])) > 1
    /\ \A i \in CurrentWave(pipeline[e]) : pipeline[e].steps[i].pc # "scheduled"
    /\ \E i \in CurrentWave(pipeline[e]) : pipeline[e].steps[i].pc = "raised"
    /\ Quiet(e)
    /\ ApplyRun(e, ExceptRun(e, pipeline[e]), <<>>)

(***************************************************************************)
(* Initial state: the store as the module creates it (store.py 16-43), no  *)
(* request made yet.  The sandbox mode is computed once per process.       *)
(***************************************************************************)
InitStore ==
    /\ messages = [s \in Streams |-> <<>>]
    /\ connections = [s \in Streams |-> {}]
    /\ connGen = [s \in Streams |-> 0]
    /\ received = [c \in Conns |-> <<>>]
    /\ published = [s \in Streams |-> <<>>]
    /\ resetAt = [s \in Streams |-> 0]
    /\ conn = [c \in Conns |-> NewConn]
    /\ bc = [p \in Procs |-> IdleBc]
    /\ activeExecutionId = [cv \in Convs |-> None]
    /\ exec = [e \in Tasks |-> NoExec]
    /\ agent_counter = 0
    /\ dynamic_agents = [e \in Tasks |-> [a \in AgentIds |-> NoAgent]]
    /\ launcher = [a \in AgentIds |-> NoLauncher]
    /\ proc = [a \in AgentIds |-> NoProc]
    /\ trace = [a \in AgentIds |-> <<>>]
    /\ spawnReq = [k \in SpawnSlots |-> IdleSpawn]
    /\ waitReq = NoWait
    /\ pending_questions = [q \in QIds |-> None]
    /\ pending_questions_by_execution = [e \in Tasks |-> <<>>]
    /\ qobj = [o \in ObjIds |-> NoObj]
    /\ nextObj = 0
    /\ qlistGen = [e \in Tasks |-> 0]
    /\ gets = [g \in GetSlots |-> NewGet]
    /\ lastObj = [q \in QIds |-> None]
    /\ delivered = [o \in ObjIds |-> FALSE]
    /\ askResp = [k \in AskSlots |-> 0]
    /\ ansResp = [q \in QIds |-> 0]
    /\ authResp = NoAuth
    /\ toolResp = NoTool
    /\ pipeline = [e \in Tasks |-> NoPipeline]
    /\ finding = NoFinding

\* the hosts the backend is started on: in a container, on a host with the
\* override variable, on a host with a container runtime, on a bare host
Hosts == {<<TRUE, FALSE, FALSE>>, <<FALSE, TRUE, FALSE>>, <<FALSE, FALSE, TRUE>>,
          <<FALSE, FALSE, FALSE>>}

Init == InitStore /\ \E h \in Hosts : sandbox_status = detect_sandbox(h[1], h[2], h[3])

(***************************************************************************)
(* Next-state relations.  Each specification runs the same handlers on a   *)
(* part of the system: the requests that are made, and the websockets      *)
(* that connect, are those of the scenario.                                *)
(***************************************************************************)
WsNext(C, S) ==
    \/ \E c \in C, s \in S, originOk \in BOOLEAN : WsConnect(c, s, originOk)
    \/ \E c \in C : WsAccepted(c)
    \/ \E c \in C : WsReplayStep(c)
    \/ \E c \in C : PeerGone(c)
    \/ \E c \in C : WsDisconnect(c)

\* the steps of the launcher tasks; T: the outcomes of mkstemp (line 538)
LauncherSteps(T) ==
    \/ \E a \in AgentIds : LaunchStart(a)
    \/ \E a \in AgentIds : LaunchBlockedReturn(a)
    \/ \E a \in AgentIds, tmpOk \in T : LaunchPrepare(a, tmpOk)
    \/ \E a \in AgentIds, ok \in BOOLEAN : EnsureImageReturn(a, ok)
    \/ \E a \in AgentIds : ImageFailReturn(a)
    \/ \E a \in AgentIds, outcome \in {"started", "missing", "oserror"} :
          SubprocessExec(a, outcome)
    \/ \E a \in AgentIds : ReadLine(a)
    \/ \E a \in AgentIds : OutputReturn(a)
    \/ \E a \in AgentIds : ReadEOF(a)
    \/ \E a \in AgentIds : ReadTimeout(a)
    \/ \E a \in AgentIds : WaitReturn(a)
    \/ \E a \in AgentIds : LaunchFinalReturn(a)

LauncherNext == LauncherSteps(BOOLEAN)

ProcNext ==
    \/ \E a \in AgentIds : ProcEmit(a)
    \/ \E a \in AgentIds : ProcCloseStdout(a)
    \/ \E a \in AgentIds, rc \in {0, 1} : ProcExit(a, rc)
    \/ \E a \in AgentIds : ProcKilled(a)

\* ---- the agent scheduler: spawn-agent requests for one task, the
\* launcher tasks, the agents' processes, one task-stream subscriber
NextAgents ==
    \/ agent_counter < MaxLaunched /\ spawn_agent(1, 1)
    \/ SpawnReturn(1)
    \/ LauncherNext
    \/ \E a \in AgentIds : LaunchCancel(a)
    \/ ProcNext
    \/ \E p \in Procs : BcResume(p)
    \/ WsNext({1}, {1})

SpecAgents == Init /\ [][NextAgents]_vars

\* ---- the same without cancellation, with a subscriber that stays and
\* with the temporary file always created, the event loop running every
\* coroutine that can run (weak fairness on the steps of the request
\* handler, of the launcher and of its broadcasts) and the kernel delivering
\* SIGKILL.  Nothing is assumed of the agent's process.
NextAgentsLive ==
    \/ agent_counter < MaxLaunched /\ spawn_agent(1, 1)
    \/ SpawnReturn(1)
    \/ LauncherSteps({TRUE})
    \/ ProcNext
    \/ \E p \in Procs : BcResume(p)
    \/ WsConnect(1, 1, TRUE)
    \/ WsAccepted(1)
    \/ WsReplayStep(1)

SpecAgentsLive ==
    /\ Init
    /\ [][NextAgentsLive]_vars
    /\ WF_vars(SpawnReturn(1))
    /\ WF_vars(LauncherSteps({TRUE}))
    /\ WF_vars(\E p \in Procs : BcResume(p))
    /\ WF_vars(\E a \in AgentIds : ProcKilled(a))

(***************************************************************************)
(* Properties of the agent scheduler.                                      *)
(***************************************************************************)
\* C1: for every dynamic agent, in every reachable state, a set completion
\* signal (result_event) implies that the status is completed or failed and
\* that completedAt is written, on every exit path of the launcher,
\* cancellation of the launcher task included.
C1_SignalImpliesFinal ==
    \A e \in Tasks, a \in AgentIds :
        dynamic_agents[e][a].result_event =>
            /\ dynamic_agents[e][a].status \in Terminal
            /\ dynamic_agents[e][a].completedAt

TerminalWrite == {"status:completed", "status:failed"}

\* C8: once a dynamic agent's status is completed or failed it never changes
\* again: in the sequence of the launcher's writes to the agent record, in
\* code order, a write of a terminal status is never followed by the write of
\* another status.
C8_TerminalStatusIsFinal ==
    \A a \in AgentIds :
        \A i, j \in DOMAIN trace[a] :
            (i < j /\ trace[a][i] \in TerminalWrite
                   /\ trace[a][j] \in TerminalWrite \cup {"status:running"})
            => trace[a][j] = trace[a][i]

\* C9: on agent exit the completion signal is set only after the
\* agent-complete event has been published: in the launcher's effects, in
\* code order, every setting of the signal has an agent-complete before it.
C9_SignalAfterAgentComplete ==
    \A a \in AgentIds :
        \A i \in DOMAIN trace[a] :
            trace[a][i] = "signal" =>
                \E j \in 1..(i - 1) : trace[a][j] = "agent-complete"

\* C10: every dynamic agent that is spawned eventually has status completed
\* or failed and its completion signal set, whatever its process does.
C10_SpawnedEventuallyFinal ==
    \A e \in Tasks, a \in AgentIds :
        (dynamic_agents[e][a].status # "absent")
            ~> (dynamic_agents[e][a].status \in Terminal
                /\ dynamic_agents[e][a].result_event)

(***************************************************************************)
(* Spawn requests: single and batch requests on two request slots, for     *)
(* two tasks, with a subscriber on the first task's stream so that the     *)
(* agent-spawn broadcast suspends.  The launcher tasks are created and     *)
(* left unscheduled: they never add or remove an agent.                    *)
(***************************************************************************)
NextSpawn ==
    \/ \E k \in SpawnSlots, e \in Tasks : spawn_agent(k, e)
    \/ \E k \in SpawnSlots, e \in Tasks, n \in 2..MaxSpawnCalls :
          spawn_agents_batch(k, e, n)
    \/ \E k \in SpawnSlots : SpawnReturn(k)
    \/ \E p \in Procs : BcResume(p)
    \/ WsNext({1}, {1})

SpecSpawn == Init /\ [][NextSpawn]_vars

\* C4: in every reachable state, under any interleaving of spawn-agent and
\* spawn-agents requests for one or several tasks, each task's dynamic-agent
\* table holds at most MAX_AGENTS_PER_EXECUTION agents.
C4_AgentCap ==
    \A e \in Tasks : Cardinality(AgentsOf(e)) <= MAX_AGENTS_PER_EXECUTION

\* a request was refused with 429 at a full table, while another request
\* for the same task was suspended in its broadcast
C4_Witness ==
    \E k, k2 \in SpawnSlots, e \in Tasks :
        /\ spawnReq[k].resp = 429
        /\ Cardinality(AgentsOf(e)) = MAX_AGENTS_PER_EXECUTION
        /\ spawnReq[k2].pc = "bcast" /\ spawnReq[k2].e = e
        /\ bc[<<"spawn", k2>>].phase = "sending"

(***************************************************************************)
(* The question relay: questions posted for both tasks, long-poll GETs,    *)
(* answers by POST and by clarification-response frames from a task-stream *)
(* websocket and from a console websocket.  A frame is JSON from the       *)
(* client: its answer may be a string or null (NoAns).                     *)
(***************************************************************************)
NextQuestions ==
    \/ \E q \in RelayQIds, e \in Tasks :
          nextObj < MaxRelayAsks /\ post_question(nextObj + 1, q, e)
    \/ \E k \in AskSlots : PostQuestionReturn(k)
    \/ \E g \in GetSlots, q \in RelayQIds :
          /\ \A h \in GetSlots : h < g => gets[h].pc # "new"
          /\ get_answer(g, q)
    \/ \E g \in GetSlots : GetAnswerWake(g)
    \/ \E g \in GetSlots : GetAnswerTimeout(g)
    \/ \E g \in GetSlots : GetAnswerDone(g)
    \/ \E q \in RelayQIds : pending_questions[q] # None /\ post_answer(q, "postgres")
    \/ \E c \in Conns, q \in RelayQIds, ans \in {"sqlite", NoAns} : WsAnswer(c, q, ans)
    \/ \E p \in Procs : BcResume(p)
    \/ WsConnect(1, 1, TRUE) \/ \E cv \in Convs : WsConnect(2, cv, TRUE)
    \/ \E c \in Conns : WsAccepted(c)
    \/ \E c \in Conns : WsReplayStep(c)

InitQuestions == InitStore /\ sandbox_status = detect_sandbox(TRUE, FALSE, FALSE)

SpecQuestions == InitQuestions /\ [][NextQuestions]_vars

\* C3: after an answer to a pending question has been accepted, the asking
\* side's next GET /question/{id}/answer returns it, whether or not a GET
\* was blocked when the answer arrived: no GET is answered 404 while the
\* accepted answer of the question has not been returned by any GET.
C3_AnswerReachesAsker ==
    \A g \in GetSlots : ~(gets[g].resp = "404" /\ gets[g].late)

\* C5: for every pending question, under any interleaving of the three
\* answer paths, the answer is assigned at most once, and the question's
\* signal is set if and only if its answer has been assigned.
C5_SignalIffAnswered ==
    \A o \in ObjIds :
        /\ qobj[o].writes <= 1
        /\ qobj[o].event <=> (qobj[o].answer # NoAns)

(***************************************************************************)
(* The streams of one task: the task is submitted through a conversation   *)
(* or through the REST route, its executor runs the dynamic orchestrator   *)
(* and, if that did not complete, the static pipeline; a websocket         *)
(* subscribes to the task stream or to the conversation stream at any      *)
(* moment.                                                                 *)
(***************************************************************************)
ExecutorNext(e) ==
    \/ DynStart(e)
    \/ \E outcome \in {"started", "missing", "imagefail"} : DynLaunch(e, outcome)
    \/ DynLine(e)
    \/ DynLineReturn(e)
    \/ DynTimeout(e)
    \/ \E rc \in {0, 1} : DynExit(e, rc)
    \/ DynFailComplete(e)
    \/ DynReturn(e)
    \/ DynRaised(e)
    \/ Fallback(e)
    \/ StaticRun(e)
    \/ StaticLine(e)
    \/ StaticLineReturn(e)
    \/ StaticFinish(e)
    \/ StaticReturn(e)

NextStream ==
    \/ \E cv \in Convs : SubmitConv(cv, 1)
    \/ SubmitRest(1)
    \/ ExecutorNext(1)
    \/ \E p \in Procs : BcResume(p)
    \/ WsNext({1}, {1} \cup Convs)

SpecStream == Init /\ [][NextStream]_vars

(***************************************************************************)
(* The whole backend: every request, handler, task and environment step.   *)
(***************************************************************************)
Next ==
    \/ \E k \in SpawnSlots, e \in Tasks : spawn_agent(k, e)
    \/ \E k \in SpawnSlots, e \in Tasks, n \in 2..MaxSpawnCalls :
          spawn_agents_batch(k, e, n)
    \/ \E k \in SpawnSlots : SpawnReturn(k)
    \/ LauncherNext
    \/ \E a \in AgentIds : LaunchCancel(a)
    \/ ProcNext
    \/ \E cv \in Convs, e \in Tasks : SubmitConv(cv, e)
    \/ \E e \in Tasks : SubmitRest(e)
    \/ \E e \in Tasks : ExecutorNext(e)
    \/ \E k \in AskSlots, q \in QIds, e \in Tasks : post_question(k, q, e)
    \/ \E k \in AskSlots : PostQuestionReturn(k)
    \/ \E g \in GetSlots, q \in QIds : get_answer(g, q)
    \/ \E g \in GetSlots : GetAnswerWake(g)
    \/ \E g \in GetSlots : GetAnswerTimeout(g)
    \/ \E g \in GetSlots : GetAnswerDone(g)
    \/ \E q \in QIds, ans \in Answers : post_answer(q, ans)
    \/ \E c \in Conns, q \in QIds, ans \in Answers \cup {NoAns} : WsAnswer(c, q, ans)
    \/ \E p \in Procs : BcResume(p)
    \/ WsNext(Conns, Streams)

Spec == Init /\ [][Next]_vars

(***************************************************************************)
(* Properties of the event bus.                                            *)
(***************************************************************************)
\* the last n elements of seq
LastN(seq, n) == IF Len(seq) <= n THEN seq ELSE SubSeq(seq, Len(seq) - n + 1, Len(seq))

\* websockets whose handler has registered them on a stream
Joined == {c \in Conns : conn[c].pc \in {"replay", "snapshot", "questions", "open",
                                         "dead", "closed"}}

\* the frames of seq that are broadcast messages (replayed or live), in order
RECURSIVE Stamped(_)
Stamped(seq) ==
    IF seq = <<>> THEN <<>>
    ELSE IF Head(seq).n > 0 THEN <<Head(seq)>> \o Stamped(Tail(seq))
    ELSE Stamped(Tail(seq))

IsPrefix(x, y) == Len(x) <= Len(y) /\ SubSeq(y, 1, Len(x)) = x

\* C2: a subscriber that joins a stream after m1..mn were published receives
\* the retained suffix of those messages in publication order, then the
\* snapshot, and only then the messages published afterwards, in publication
\* order, also when other coroutines publish during the replay: what it has
\* received of the stream is a prefix of (buffer at join, later messages),
\* and the snapshot stands after the former and before the latter.
C2_ReplayThenLive ==
    \A c \in Joined :
        LET s == conn[c].sid
            later == SubSeq(published[s], conn[c].joinN + 1, Len(published[s]))
            R == received[c]
        IN /\ IsPrefix(Stamped(R), conn[c].joinBuf \o later)
           /\ \A i, j \in DOMAIN R :
                 (R[i].type = "execution-snapshot" /\ R[j].n > 0)
                 => (j < i <=> R[j].n <= conn[c].joinN)

\* C6: for every broadcast on a task stream or a conversation stream, the
\* message is appended to the stream's replay buffer before the first send
\* attempt, and there is no suspension between the append and the eviction:
\* every message of a broadcast that has started, and every message a
\* subscriber was sent, is in the log of the messages appended to its
\* stream's buffer, and no state shows a buffer over the cap.
C6_AppendBeforeSend ==
    /\ \A p \in Procs :
          bc[p].phase # "idle" =>
              /\ bc[p].msg.n \in 1..Len(published[bc[p].sid])
              /\ published[bc[p].sid][bc[p].msg.n] = bc[p].msg
    /\ \A c \in Joined : \A i \in DOMAIN received[c] :
          received[c][i].n > 0 =>
              /\ received[c][i].n <= Len(published[conn[c].sid])
              /\ published[conn[c].sid][received[c][i].n] = received[c][i]
    /\ \A s \in Streams : Len(messages[s]) <= MESSAGE_BUFFER_CAP

\* a broadcast is suspended in its first send on a stream whose buffer is
\* full and has evicted
C6_Witness ==
    \E p \in Procs :
        /\ bc[p].phase = "sending"
        /\ Cardinality(bc[p].visited) = 1
        /\ Len(published[bc[p].sid]) > MESSAGE_BUFFER_CAP
        /\ Len(messages[bc[p].sid]) = MESSAGE_BUFFER_CAP
        /\ bc[p].msg.n = Len(published[bc[p].sid])

InitAnyHost ==
    /\ InitStore
    /\ \E s, o, d \in BOOLEAN : sandbox_status = detect_sandbox(s, o, d)

SpecSandbox == InitAnyHost /\ [][NextAgentsLive]_vars

\* C18: the sandbox mode is a function of (inside a container, override
\* variable set, container runtime available): native whenever inside a
\* container; otherwise host-override when the override is set; otherwise
\* docker-wrap when a container runtime is available; otherwise blocked; for
\* all eight combinations of the inputs.
C18_ModeTable ==
    LET in == <<sandbox_status.sandboxed, sandbox_status.override_active,
                sandbox_status.docker_available>>
        table == (<<TRUE, TRUE, TRUE>> :> "native") @@ (<<TRUE, TRUE, FALSE>> :> "native")
              @@ (<<TRUE, FALSE, TRUE>> :> "native") @@ (<<TRUE, FALSE, FALSE>> :> "native")
              @@ (<<FALSE, TRUE, TRUE>> :> "host-override")
              @@ (<<FALSE, TRUE, FALSE>> :> "host-override")
              @@ (<<FALSE, FALSE, TRUE>> :> "docker-wrap")
              @@ (<<FALSE, FALSE, FALSE>> :> "blocked")
    IN exec_mode = table[in]

\* on a host with both the override variable and a container runtime the
\* mode is host-override, and an agent's process was started directly
C18_Witness ==
    /\ ~sandbox_status.sandboxed
    /\ sandbox_status.override_active
    /\ sandbox_status.docker_available
    /\ exec_mode = "host-override"
    /\ \E a \in AgentIds : proc[a].state = "running"

\* C13: broadcast and broadcast_console never raise to their caller, also
\* when subscribers connect or disconnect while the broadcast is suspended in
\* a send; and when a broadcast has returned, every subscriber that was
\* registered when it started, and is still registered with its peer
\* connected, has been sent the message.
C13_BroadcastNeverRaises ==
    \A p \in Procs :
        /\ bc[p].phase # "raised"
        /\ bc[p].phase = "done" =>
              \A c \in bc[p].orig \cap connections[bc[p].sid] :
                  PeerOpen(c) => InSeq(received[c], bc[p].msg)

(***************************************************************************)
(* Admission of subscribers: three websockets connect to the stream of one *)
(* task, on which an agent-spawn event is published.                       *)
(***************************************************************************)
NextConnect ==
    \/ agent_counter < MaxLaunched /\ spawn_agent(1, 1)
    \/ SpawnReturn(1)
    \/ \E p \in Procs : BcResume(p)
    \/ WsNext(Conns, {1})

SpecConnect == Init /\ [][NextConnect]_vars

\* C14: no stream ever has more than MAX_CONNECTIONS registered subscribers,
\* under any interleaving of concurrent connection attempts: a connection
\* arriving at a full stream is closed with code 4004 and is not registered.
C14_ConnectionCap ==
    \A s \in Streams : Cardinality(connections[s]) <= MAX_CONNECTIONS

(***************************************************************************)
(* The table of pending questions: questions are posted for both tasks     *)
(* and answered by POST; one websocket subscribes to the first task.       *)
(***************************************************************************)
NextAsk ==
    \/ \E q \in QIds, e \in Tasks : post_question(nextObj + 1, q, e)
    \/ \E k \in AskSlots : PostQuestionReturn(k)
    \/ \E q \in QIds : pending_questions[q] # None /\ post_answer(q, "postgres")
    \/ \E p \in Procs : BcResume(p)
    \/ WsConnect(1, 1, TRUE)
    \/ WsAccepted(1)
    \/ WsReplayStep(1)

SpecAsk == InitQuestions /\ [][NextAsk]_vars

\* C20: in every reachable state the global pending-question table holds at
\* most MAX_PENDING_QUESTIONS questions; a POST /question that arrives when
\* the table holds that many is answered 429, stores nothing and broadcasts
\* no clarification event, and a POST that stores a question arrived at a
\* table that was not full.
C20_PendingCap ==
    /\ [](PendingCount <= MAX_PENDING_QUESTIONS)
    /\ [][/\ nextObj' # nextObj => PendingCount < MAX_PENDING_QUESTIONS
          /\ \A k \in AskSlots :
                (askResp'[k] = 429 /\ askResp[k] # 429) =>
                    /\ PendingCount = MAX_PENDING_QUESTIONS
                    /\ UNCHANGED <<pending_questions, pending_questions_by_execution,
                                   qobj, nextObj, messages, published, received, bc>>
         ]_vars

\* a POST /question was answered 429 at a full table
C20_Witness ==
    /\ PendingCount = MAX_PENDING_QUESTIONS
    /\ \E k \in AskSlots : askResp[k] = 429

(***************************************************************************)
(* Admission of tasks: two tasks are submitted, each through the REST      *)
(* route or through a conversation message, and executed; one websocket    *)
(* subscribes to the first task's stream.  The orchestrators and the       *)
(* pipeline phases of this scenario print nothing, and the backend runs    *)
(* in a container.                                                         *)
(***************************************************************************)
ExecutorQuiet(e) ==
    \/ DynStart(e)
    \/ \E outcome \in {"started", "missing", "imagefail"} : DynLaunch(e, outcome)
    \/ \E rc \in {0, 1} : DynExit(e, rc)
    \/ DynFailComplete(e)
    \/ DynReturn(e)
    \/ DynRaised(e)
    \/ Fallback(e)
    \/ StaticRun(e)
    \/ StaticFinish(e)
    \/ StaticReturn(e)

NextAdmit ==
    \/ \E e \in Tasks : SubmitRest(e)
    \/ \E cv \in Convs, e \in Tasks : SubmitConv(cv, e)
    \/ \E e \in Tasks : ExecutorQuiet(e)
    \/ \E p \in Procs : BcResume(p)
    \/ WsNext({1}, {1})

SpecAdmit == InitQuestions /\ [][NextAdmit]_vars

\* C19: at any time at most EXECUTION_SEMAPHORE tasks are being executed
\* (between executor entry and executor exit, fallback included), whichever
\* entry point admitted them: REST execution creation or a conversation
\* message.
C19_ExecutionCap == Cardinality(Executing) <= EXECUTION_SEMAPHORE

(***************************************************************************)
(* One task with its dynamic agents: the task is submitted, its executor   *)
(* runs (the orchestrator and the pipeline phases print nothing), agents   *)
(* are spawned for it and launched.  No websocket subscribes, so every     *)
(* broadcast returns without suspending and none raises.                   *)
(***************************************************************************)
ExecutorUnobserved(e) ==
    \/ DynStart(e)
    \/ \E outcome \in {"started", "missing", "imagefail"} : DynLaunch(e, outcome)
    \/ \E rc \in {0, 1} : DynExit(e, rc)
    \/ DynFailComplete(e)
    \/ DynReturn(e)
    \/ Fallback(e)
    \/ StaticRun(e)
    \/ StaticFinish(e)
    \/ StaticReturn(e)

NextTask ==
    \/ SubmitRest(1)
    \/ \E cv \in Convs : SubmitConv(cv, 1)
    \/ ExecutorUnobserved(1)
    \/ /\ agent_counter < MaxLaunched
       /\ exec[1].status # "absent"
       /\ spawn_agent(1, 1)
    \/ SpawnReturn(1)
    \/ LauncherSteps({TRUE})
    \/ ProcNext

SpecTask == Init /\ [][NextTask]_vars

\* the executor of e hands the task to the static pipeline in this step
FallbackStarts(e) == exec'[e].fallbacks # exec[e].fallbacks

\* C15 as stated: the static fallback pipeline is started for a task only if
\* the dynamic run ended without completing the task and no dynamic agent
\* was spawned for the task, and it is started at most once per task.
C15_FallbackOnlyWithoutAgents ==
    [][\A e \in Tasks :
          FallbackStarts(e) =>
              /\ exec[e].pc = "dyn_returned"
              /\ exec[e].status # "completed"
              /\ AgentsOf(e) = {}
              /\ exec[e].fallbacks = 0]_vars

\* C15 amended: the static fallback pipeline is started for a task only if
\* the dynamic run has returned and left the task with a status other than
\* completed, whether or not dynamic agents were spawned for the task, and
\* it is started at most once per task.
C15_FallbackOnlyAfterFailure ==
    [][\A e \in Tasks :
          FallbackStarts(e) =>
              /\ exec[e].pc = "dyn_returned"
              /\ exec[e].status # "completed"
              /\ exec[e].fallbacks = 0]_vars

\* the static pipeline was started for a task that has dynamic agents
C15_Witness ==
    \E e \in Tasks :
        /\ exec[e].fallbacks = 1
        /\ exec[e].pc \in {"static_phase", "static_run"}
        /\ AgentsOf(e) # {}

\* C16: if the sandbox is blocked, or a complete event with status failed
\* was published for a task, then the status of the task when its executor
\* has finished is failed.
C16_FailedEventIsFinal ==
    \A e \in Tasks :
        (/\ exec[e].pc = "done"
         /\ \/ exec_mode = "blocked"
            \/ \E i \in DOMAIN published[e] :
                  published[e][i].type = "complete" /\ published[e][i].status = "failed")
        => exec[e].status = "failed"

\* C17: when the sandbox mode is blocked no subprocess is ever started, by
\* the dynamic orchestrator, by the launcher of a spawned agent or by the
\* static pipeline, and a submitted task ends with status failed.
C17_BlockedStartsNothing ==
    exec_mode = "blocked" =>
        /\ \A a \in AgentIds :
              /\ proc[a].state = "none"
              /\ launcher[a].pc \notin {"start_bcast", "ensure_image", "spawning",
                                      "reading", "out_bcast", "waiting",
                                      "imgfail_bcast", "final_bcast"}
        /\ \A e \in Tasks :
              /\ exec[e].pc \in {"none", "start", "dyn_fail_out", "dyn_fail_complete",
                                  "dyn_returned", "static_complete", "done"}
              /\ exec[e].pc = "done" => exec[e].status = "failed"

\* on a blocked host a task went through the dynamic run and the fallback
\* and ended, and the launcher of an agent spawned for it ended
C17_Witness ==
    /\ exec_mode = "blocked"
    /\ exec[1].pc = "done" /\ exec[1].fallbacks = 1
    /\ \E a \in AgentIds : launcher[a].pc = "ended" /\ Ag(a).status = "failed"

(***************************************************************************)
(* Waiting for agents.  The agent scheduler with one /agents/wait request  *)
(* naming an id that is not in the store and the agent that is launched.   *)
(***************************************************************************)
WaitSteps ==
    \/ \E i \in 1..MaxWaitIds : WaitOneStart(i)
    \/ \E i \in 1..MaxWaitIds : WaitOneWake(i)
    \/ \E i \in 1..MaxWaitIds : WaitOneTimeout(i)
    \/ WaitGathered

NextWait ==
    \/ NextAgents
    \/ wait_for_agents(<<2, 1>>)
    \/ WaitSteps

SpecWait == Init /\ [][NextWait]_vars

\* the agents of the results of the wait request, in the order of the results
ResultAgents == [i \in DOMAIN waitReq.res |-> waitReq.res[i].agent]

\* C11: POST /agents/wait returns only when every known requested agent has
\* been resolved, by its completion signal or by the timeout of the request
\* (or was completed or failed when its wait started); each agent whose
\* signal fired is reported with a terminal status, each agent that timed
\* out with its current snapshot, and unknown ids are skipped.
C11_WaitResolvesAll ==
    waitReq.pc = "returned" =>
        /\ {ResultAgents[i] : i \in DOMAIN ResultAgents}
              = {waitReq.ids[j] : j \in DOMAIN waitReq.ids} \cap waitReq.known
        /\ \A i \in DOMAIN waitReq.res :
              /\ waitReq.res[i].how \in {"terminal", "signal", "timeout"}
              /\ waitReq.res[i].how \in {"terminal", "signal"}
                    => waitReq.res[i].status \in Terminal

(***************************************************************************)
(* The order of the results: agents are spawned for two tasks (their       *)
(* launchers are left unscheduled, so every wait ends by its timeout) and  *)
(* one /agents/wait request names one or two agent ids.                    *)
(***************************************************************************)
WaitIdLists ==
    {<<a>> : a \in AgentIds} \cup {<<a, b>> : a, b \in AgentIds}

NextWaitOrder ==
    \/ \E e \in Tasks : spawn_agent(1, e)
    \/ SpawnReturn(1)
    \/ \E ids \in WaitIdLists : wait_for_agents(ids)
    \/ \E i \in 1..MaxWaitIds : WaitOneStart(i)
    \/ \E i \in 1..MaxWaitIds : WaitOneTimeout(i)
    \/ WaitGathered

SpecWaitOrder == Init /\ [][NextWaitOrder]_vars

\* C12: POST /agents/wait returns its results in the order of the requested
\* agent_ids, unknown ids skipped, one result per known id, for every list
\* of ids, including ids of agents of different tasks.
C12_ResultsInRequestOrder ==
    waitReq.pc = "returned" => ResultAgents = IdsIn(waitReq.ids, waitReq.known)

(***************************************************************************)
(* Rejected requests.                                                      *)
(***************************************************************************)
\* the agent-spawn events published on the stream of e
SpawnEvents(e) == SelectSeq(published[e], LAMBDA m : m.type = "agent-spawn")

\* C21: a spawn-agent request that arrives when its task already has
\* MAX_AGENTS_PER_EXECUTION agents is answered 429, leaves that task's agent
\* table and every other task's agent table unchanged, publishes no
\* agent-spawn event and launches no subprocess.
C21_RejectedSpawnFrame ==
    [][\A k \in SpawnSlots, e \in Tasks :
          (/\ Cardinality(AgentsOf(e)) >= MAX_AGENTS_PER_EXECUTION
           /\ spawn_agent(k, e))
          => /\ spawnReq'[k].resp = 429
             /\ spawnReq'[k].pc = "idle"
             /\ dynamic_agents' = dynamic_agents
             /\ published' = published
             /\ messages' = messages
             /\ received' = received
             /\ launcher' = launcher
             /\ proc' = proc]_vars

\* a single spawn-agent request was refused at the full table of the first
\* task: the table holds the two agents spawned before, two agent-spawn
\* events were published, and the other task has no agent
C21_Witness ==
    /\ \E k \in SpawnSlots : spawnReq[k].resp = 429 /\ spawnReq[k].made = 0
    /\ Cardinality(AgentsOf(1)) = MAX_AGENTS_PER_EXECUTION
    /\ AgentsOf(2) = {}
    /\ agent_counter > MAX_AGENTS_PER_EXECUTION
    /\ Len(SpawnEvents(1)) = MAX_AGENTS_PER_EXECUTION

\* C22: every request rejected with 429 for a resource limit (spawn-agent, a
\* spawn-agents batch, POST /question) causes no state change: the agent
\* tables, the agent-id counter, the pending-question tables and the replay
\* buffers are the same after the response as before the request; a
\* spawn-agents batch answered 429 has stored none of its items.
C22_RejectedChangesNothing ==
    /\ [](\A k \in SpawnSlots : spawnReq[k].resp = 429 => spawnReq[k].made = 0)
    /\ [][/\ \A k \in SpawnSlots :
                (spawnReq'[k].resp = 429 /\ spawnReq'[k] # spawnReq[k]) =>
                    UNCHANGED <<dynamic_agents, agent_counter, pending_questions,
                                pending_questions_by_execution, messages>>
          /\ \A k \in AskSlots :
                (askResp'[k] = 429 /\ askResp[k] # 429) =>
                    UNCHANGED <<dynamic_agents, agent_counter, pending_questions,
                                pending_questions_by_execution, messages>>
         ]_vars

(***************************************************************************)
(* The questions of one task: the task is submitted and executed (nothing  *)
(* subscribes and nothing is printed); while its orchestrator process runs *)
(* it asks questions through the bridge (mcp_bridge.py 45-62: POST         *)
(* /question, then long-poll GETs), and the user answers some of them.     *)
(***************************************************************************)
NextTaskAsk ==
    \/ SubmitRest(1)
    \/ \E cv \in Convs : SubmitConv(cv, 1)
    \/ ExecutorUnobserved(1)
    \/ \E q \in RelayQIds :
          /\ exec[1].pc = "dyn_read"
          /\ pending_questions[q] = None
          /\ nextObj < MaxRelayAsks
          /\ post_question(nextObj + 1, q, 1)
    \/ \E k \in AskSlots : PostQuestionReturn(k)
    \/ \E g \in GetSlots, q \in RelayQIds : lastObj[q] # None /\ get_answer(g, q)
    \/ \E g \in GetSlots : GetAnswerWake(g)
    \/ \E g \in GetSlots : GetAnswerTimeout(g)
    \/ \E g \in GetSlots : GetAnswerDone(g)
    \/ \E q \in RelayQIds : pending_questions[q] # None /\ post_answer(q, "postgres")

SpecTaskAsk == Init /\ [][NextTaskAsk]_vars

\* the pending questions whose parent is task e
QuestionsOf(e) ==
    {q \in QIds : pending_questions[q] # None
                  /\ qobj[pending_questions[q]].execution_id = e}

\* C23: when a task has a terminal status (completed or failed), every
\* pending question whose parent is that task has been removed from the
\* pending-question table and from the per-task index.
C23_FinishedTaskHasNoQuestions ==
    \A e \in Tasks :
        exec[e].status \in Terminal =>
            /\ QuestionsOf(e) = {}
            /\ pending_questions_by_execution[e] = <<>>

(***************************************************************************)
(* Answers by POST: questions are posted for one task, each under an id of *)
(* its own (the bridge draws a fresh uuid per question, mcp_bridge.py 30); *)
(* answers are posted to any id at any time, any number of times, and a    *)
(* subscriber of the task's stream answers by frame.                       *)
(***************************************************************************)
NextAnswer ==
    \/ \E q \in RelayQIds :
          /\ lastObj[q] = None
          /\ nextObj < MaxRelayAsks
          /\ post_question(nextObj + 1, q, 1)
    \/ \E k \in AskSlots : PostQuestionReturn(k)
    \/ \E q \in RelayQIds, ans \in Answers : post_answer(q, ans)
    \/ \E q \in RelayQIds : WsAnswer(1, q, "sqlite")
    \/ \E p \in Procs : BcResume(p)
    \/ WsConnect(1, 1, TRUE)
    \/ WsAccepted(1)
    \/ WsReplayStep(1)

SpecAnswer == InitQuestions /\ [][NextAnswer]_vars

\* C24: submitting an answer twice to the same question id through POST
\* /question/{id}/answer: the first call, to a pending question, returns ok,
\* records the answer and removes the question, so that the second call
\* finds no question: it returns 404 and changes neither the recorded
\* answer nor any table.
C24_SecondAnswerIs404 ==
    /\ [](\A q \in QIds : ansResp[q] = 200 =>
              /\ pending_questions[q] = None
              /\ lastObj[q] # None
              /\ qobj[lastObj[q]].answer # NoAns)
    /\ [][\A q \in QIds, ans \in Answers :
             post_answer(q, ans) =>
                IF pending_questions[q] # None
                THEN /\ ansResp'[q] = 200
                     /\ pending_questions'[q] = None
                     /\ qobj'[lastObj[q]].answer = ans
                ELSE /\ ansResp'[q] = 404
                     /\ UNCHANGED <<qobj, pending_questions,
                                    pending_questions_by_execution, qlistGen,
                                    messages, dynamic_agents, exec>>
         ]_vars

\* the answer postgres was posted to a question and accepted, and a later
\* POST to the same id was answered 404: the recorded answer is still
\* postgres and the question is in no table
C24_Witness ==
    \E q \in QIds :
        /\ ansResp[q] = 404
        /\ lastObj[q] # None
        /\ qobj[lastObj[q]].answer = "postgres"
        /\ qobj[lastObj[q]].writes = 1
        /\ pending_questions[q] = None
        /\ \A e \in Tasks : ~InSeq(pending_questions_by_execution[e], q)

\* C25: if starting a child agent's subprocess fails because the agent
\* binary is not found, the agent ends with status failed, never with status
\* completed.
C25_MissingBinaryFails ==
    \A a \in AgentIds :
        (launcher[a].pc \in {"final_bcast", "ended"} /\ InSeq(trace[a], "output:not-found"))
        => Ag(a).status = "failed"

(***************************************************************************)
(* Token verification of the internal API.  A request carries the shared   *)
(* token of the process, another string, or no X-Orchestra-Token header.   *)
(* A request with the shared token is the handler action of its route; a   *)
(* request that fails verification ends in verify_token_request.           *)
(***************************************************************************)
internal_api_token == "shared"
Tokens == {internal_api_token, "other", "<missing>"}

\* routes of routes/internal.py and of routes/internal_dynamic.py
QuestionRoutes == {"POST /question", "GET /question/{id}/answer",
                   "POST /question/{id}/answer"}
AgentRoutes == {"POST /spawn-agent", "GET /agent/{id}/status", "GET /agent/{id}/result",
                "POST /spawn-agents", "POST /agents/wait"}

\* internal.py 14-17, a dependency of the router (line 20): the header
\* parameter is declared `str = Header()`, so a request without the header
\* fails validation (422) before the function runs; a different token: 403
_verify_token(token) ==
    IF token = "<missing>" THEN 422
    ELSE IF token # internal_api_token THEN 403
    ELSE 200

\* internal_dynamic.py 43-45, the first statement of every handler
internal_dynamic_verify_token(token) ==
    IF token = "<missing>" \/ token # internal_api_token THEN 401 ELSE 200

\* a request to route with token is refused before its handler runs
verify_token_request(route, token) ==
    LET st == IF route \in QuestionRoutes THEN _verify_token(token)
              ELSE internal_dynamic_verify_token(token)
    IN /\ st # 200
       /\ authResp' = [route |-> route, status |-> st]
       /\ UNCHANGED <<busVars, execVars, agentVars, pending_questions,
                      pending_questions_by_execution, qobj, nextObj, qlistGen, gets,
                      lastObj, delivered, askResp, ansResp, toolResp>>

NextAuth ==
    \/ \E route \in QuestionRoutes \cup AgentRoutes, token \in Tokens :
          verify_token_request(route, token)
    \/ agent_counter < MaxLaunched /\ spawn_agent(1, 1)
    \/ SpawnReturn(1)
    \/ \E q \in RelayQIds :
          nextObj < MaxRelayAsks /\ post_question(nextObj + 1, q, 1)
    \/ \E k \in AskSlots : PostQuestionReturn(k)
    \/ \E q \in RelayQIds : post_answer(q, "postgres")

SpecAuth == InitQuestions /\ [][NextAuth]_vars

\* C26: every endpoint under /api/internal, the question endpoints as well
\* as the agent endpoints, rejects a request whose token header is missing
\* or does not match the shared token with status 401, and changes no state.
C26_BadTokenIs401 ==
    /\ [](authResp.status \in {0, 401})
    /\ [][authResp' # authResp =>
             UNCHANGED <<busVars, execVars, agentVars, pending_questions,
                         pending_questions_by_execution, qobj, nextObj, qlistGen,
                         gets, lastObj, delivered>>]_vars

(***************************************************************************)
(* The events of one agent.  An agent is spawned and launched; its process *)
(* prints plain lines and assistant messages with tool_use blocks on       *)
(* files.  Nothing subscribes: the order of a stream is the order in which *)
(* its messages are appended to the replay buffer.                         *)
(***************************************************************************)
NextFiles ==
    \/ agent_counter < MaxLaunched /\ spawn_agent(1, 1)
    \/ SpawnReturn(1)
    \/ LauncherSteps({TRUE})
    \/ \E a \in AgentIds, withText \in BOOLEAN : ReadAssistant(a, withText)
    \/ \E a \in AgentIds : FileActivityRun(a)
    \/ \E a \in AgentIds : FileActivityEnd(a)
    \/ ProcNext

SpecFiles == Init /\ [][NextFiles]_vars

AgentEvents == {"agent-output", "file-activity", "agent-complete"}

\* the types of the events of agent a published on stream s, in order
PublishedEvents(s, a) ==
    LET evs == SelectSeq(published[s], LAMBDA m : m.ref = a /\ m.type \in AgentEvents)
    IN [i \in DOMAIN evs |-> evs[i].type]

\* the events the launcher of a produced from the agent's stdout, in order
ProducedEvents(a) == SelectSeq(trace[a], LAMBDA f : f \in AgentEvents)

\* C27: for any single dynamic agent, its agent-output, file-activity and
\* agent-complete events appear in the task stream in the order in which
\* the agent produced the corresponding stdout events: what is published of
\* them is, at every moment, the beginning of what was produced.
C27_AgentEventsInOrder ==
    \A a \in AgentIds :
        launcher[a].pc # "none" =>
            IsPrefix(PublishedEvents(launcher[a].e, a), ProducedEvents(a))

(***************************************************************************)
(* The static pipeline of one task: the task is submitted in a container,  *)
(* its dynamic run does not complete it, and the executor falls back to    *)
(* the pipeline, whose phases end in every way.  Nothing subscribes.       *)
(***************************************************************************)
NextPipeline ==
    \/ SubmitRest(1)
    \/ \E cv \in Convs : SubmitConv(cv, 1)
    \/ DynStart(1)
    \/ \E outcome \in {"started", "missing"} : DynLaunch(1, outcome)
    \/ \E rc \in {0, 1} : DynExit(1, rc)
    \/ DynReturn(1)
    \/ Fallback(1)
    \/ PipelineStart(1)
    \/ \E i \in DOMAIN PipelineGroups : PhaseStart(1, i)
    \/ \E i \in DOMAIN PipelineGroups, outcome \in Outcomes : PhaseBody(1, i, outcome)
    \/ WaveJoin(1)
    \/ WaveRaise(1)
    \/ StaticReturn(1)

SpecPipeline == InitQuestions /\ [][NextPipeline]_vars

\* C28: in the static pipeline, phases of the same wave run concurrently and
\* no phase of wave k+1 enters status running before every phase of wave k
\* has left status running: whenever a phase has been started, every phase
\* of every earlier wave is completed or failed.
C28_WavesInOrder ==
    \A e \in Tasks :
        \A i, j \in DOMAIN pipeline[e].steps :
            (/\ pipeline[e].steps[i].group < pipeline[e].steps[j].group
             /\ pipeline[e].steps[j].status # "pending")
            => pipeline[e].steps[i].status \in {"completed", "failed"}

\* the two phases of the second wave are running at the same time, the
\* first wave is over and the phase of the third wave has not started
C28_Witness ==
    /\ DOMAIN pipeline[1].steps = DOMAIN PipelineGroups
    /\ pipeline[1].steps[1].status = "completed"
    /\ pipeline[1].steps[2].status = "running" /\ pipeline[1].steps[2].pc = "body"
    /\ pipeline[1].steps[3].status = "running" /\ pipeline[1].steps[3].pc = "body"
    /\ pipeline[1].steps[4].status = "pending"

\* the executor of e has finished the static pipeline
PipelineFinished(e) == exec[e].pc = "done" /\ pipeline[e].steps # <<>>

\* C29: when the static pipeline has finished, the task's status is
\* completed if and only if no phase of its pipeline ended with status
\* failed; otherwise it is failed.
C29_CompletedIffNoPhaseFailed ==
    \A e \in Tasks :
        PipelineFinished(e) =>
            /\ exec[e].status \in Terminal
            /\ exec[e].status = "completed"
                  <=> \A i \in DOMAIN pipeline[e].steps :
                         pipeline[e].steps[i].status # "failed"

\* C30: a failing phase of the static pipeline (its agent exits non-zero,
\* times out, cannot be started, or its handler raises an error) does not
\* abort the task: when the pipeline has finished, every phase of every
\* later wave has been run.
C30_FailureDoesNotAbort ==
    \A e \in Tasks :
        PipelineFinished(e) =>
            \A i, j \in DOMAIN pipeline[e].steps :
                (/\ pipeline[e].steps[i].outcome \in Outcomes \ {"exit0"}
                 /\ pipeline[e].steps[i].group < pipeline[e].steps[j].group)
                => pipeline[e].steps[j].pc \in {"done", "raised"}

\* C31: every sidechannel config temp file written for an agent invocation
\* has been deleted by the time that invocation ends, on every exit path
\* (normal exit, timeout or cancellation, image-build failure, failure to
\* start the process); stated here for the static-phase launcher: no step
\* whose phase has ended still has its config file on disk.
C31_TempFileDeleted ==
    \A e \in Tasks :
        \A i \in DOMAIN pipeline[e].steps :
            pipeline[e].steps[i].pc \in {"done", "raised"}
            => pipeline[e].steps[i].tmp # "written"

(***************************************************************************)
(* services/parser.py parse_finding.  An output line is a sequence of      *)
(* pieces of text; a piece is one of the keywords the patterns look for or *)
(* any other non-empty text.                                               *)
(***************************************************************************)
MaxPieces == 3

Pieces == {"CRITICAL:", "VULNERABILITY:", "FINDING:", "SECRET FOUND:",
           "SECRET DETECTED:", "CVE-2024-1234", "WARNING:", "text"}

RECURSIVE SeqsUpTo(_, _)
SeqsUpTo(S, n) ==
    IF n = 0 THEN {<<>>}
    ELSE LET shorter == SeqsUpTo(S, n - 1)
         IN shorter \cup {Append(x, p) : x \in shorter, p \in S}

Lines == SeqsUpTo(Pieces, MaxPieces) \ {<<>>}

\* parser.py 16-23: the patterns in the order of the list; tail says that the
\* pattern ends with (.+), which needs at least one character after the
\* keyword
_FINDING_PATTERNS ==
    << [name |-> "CRITICAL", kw |-> {"CRITICAL:"}, tail |-> TRUE,
        severity |-> "critical", type |-> "security"],
       [name |-> "VULNERABILITY", kw |-> {"VULNERABILITY:"}, tail |-> TRUE,
        severity |-> "high", type |-> "security"],
       [name |-> "FINDING", kw |-> {"FINDING:"}, tail |-> TRUE,
        severity |-> "medium", type |-> "security"],
       [name |-> "SECRET", kw |-> {"SECRET FOUND:", "SECRET DETECTED:"}, tail |-> TRUE,
        severity |-> "critical", type |-> "security"],
       [name |-> "CVE", kw |-> {"CVE-2024-1234"}, tail |-> FALSE,
        severity |-> "high", type |-> "security"],
       [name |-> "WARNING", kw |-> {"WARNING:"}, tail |-> TRUE,
        severity |-> "low", type |-> "quality"] >>

\* pattern.search(line) finds a match
Search(pattern, line) ==
    \E i \in 1..Len(line) :
        /\ line[i] \in pattern.kw
        /\ pattern.tail => i < Len(line)

NoMatch == [severity |-> "none", type |-> "none"]

\* parser.py 33-51: the severity and the type of the first pattern of the
\* list that matches, NoMatch for the None of a line that matches nothing
parse_finding(line) ==
    LET hits == {k \in DOMAIN _FINDING_PATTERNS : Search(_FINDING_PATTERNS[k], line)}
    IN IF hits = {} THEN NoMatch
       ELSE [severity |-> _FINDING_PATTERNS[Min(hits)].severity,
             type |-> _FINDING_PATTERNS[Min(hits)].type]

\* orchestrator.py 681, 761; dynamic_orchestrator.py 330: a line of output
\* is parsed
ParseLine(line) ==
    /\ finding' = [line |-> line, result |-> parse_finding(line)]
    /\ UNCHANGED <<busVars, activeExecutionId, exec, sandbox_status, pipeline,
                   agentVars, questionVars>>

NextParser == \E line \in Lines : ParseLine(line)

SpecParser == InitQuestions /\ [][NextParser]_vars

\* the order of the rules as documented
DocumentedOrder == <<"CRITICAL", "VULNERABILITY", "SECRET", "CVE", "FINDING", "WARNING">>

\* the pattern with the given name
PatternNamed(n) ==
    _FINDING_PATTERNS[CHOOSE k \in DOMAIN _FINDING_PATTERNS : _FINDING_PATTERNS[k].name = n]

\* C32: parse_finding classifies a line by the first matching rule in the
\* order CRITICAL:, VULNERABILITY:, SECRET FOUND|DETECTED:, CVE-YYYY-NNNN,
\* FINDING:, WARNING:; for every line that matches one or several rules the
\* severity and type returned are those of the earliest matching rule in
\* this order.
C32_FirstDocumentedRuleWins ==
    LET line == finding.line
        hits == {k \in DOMAIN DocumentedOrder : Search(PatternNamed(DocumentedOrder[k]), line)}
    IN (line # <<>> /\ hits # {})
       => /\ finding.result.severity = PatternNamed(DocumentedOrder[Min(hits)]).severity
          /\ finding.result.type = PatternNamed(DocumentedOrder[Min(hits)]).type

(***************************************************************************)
(* The sidechannel bridges: mcp_bridge_dynamic.py, which                   *)
(* run_dynamic_execution configures for the orchestrator                   *)
(* (dynamic_orchestrator.py 201-214), and mcp_bridge.py, which             *)
(* launch_agent_subprocess configures for a child agent (lines 522-536).   *)
(* A bridge is a process of its own: it answers tools/list, and on         *)
(* tools/call it sends the request of the tool to the backend, which       *)
(* serves it as any other request.                                         *)
(***************************************************************************)
Bridges == {"orchestrator", "agent"}

\* the tool surface of the orchestrator as the system prompt describes it
\* (dynamic_orchestrator.py 36-52)
ToolSurface == {"ask_user", "spawn_agent", "get_agent_status", "spawn_agents",
                "wait_for_agents"}

\* mcp_bridge_dynamic.py 60-125 TOOLS; mcp_bridge.py 18-19 the one function
\* decorated with mcp.tool()
TOOLS(bridge) ==
    IF bridge = "orchestrator" THEN {"spawn_agent", "get_agent_status", "ask_user"}
    ELSE {"ask_user"}

\* mcp_bridge_dynamic.py 128-188: the branches of handle_tool_call, line 188
\* for every other name; the bridge of a child agent serves its registered
\* function only
handle_tool_call(bridge, tool_name) ==
    IF bridge = "orchestrator"
    THEN tool_name \in {"spawn_agent", "get_agent_status", "ask_user"}
    ELSE tool_name = "ask_user"

\* mcp_bridge_dynamic.py 216-221: tools/list
ToolsList(bridge) ==
    /\ toolResp' = [NoTool EXCEPT !.bridge = bridge, !.method = "tools/list",
                                  !.tools = TOOLS(bridge)]
    /\ UNCHANGED <<busVars, execVars, agentVars, pending_questions,
                   pending_questions_by_execution, qobj, nextObj, qlistGen, gets,
                   lastObj, delivered, askResp, ansResp, authResp>>

\* mcp_bridge_dynamic.py 222-243: tools/call; before: the questions and
\* the agents the backend had stored when the call began
ToolsCall(bridge, tool_name) ==
    /\ toolResp' = [NoTool EXCEPT !.bridge = bridge, !.method = "tools/call",
                                  !.tool = tool_name,
                                  !.handled = handle_tool_call(bridge, tool_name),
                                  !.before = <<nextObj, agent_counter>>]
    /\ UNCHANGED <<busVars, execVars, agentVars, pending_questions,
                   pending_questions_by_execution, qobj, nextObj, qlistGen, gets,
                   lastObj, delivered, askResp, ansResp, authResp>>

\* the bridge is serving a call of tool_name and has not made the request
\* of the call yet (lines 136, 169: one request for a call)
Serving(bridge, tool_name) ==
    /\ toolResp.bridge = bridge
    /\ toolResp.tool = tool_name
    /\ toolResp.handled
    /\ toolResp.before = <<nextObj, agent_counter>>

\* mcp_bridge_dynamic.py 170: the orchestrator's bridge asks every question
\* of task e under the id q-<e>-ask, here the id e; mcp_bridge.py 30: the
\* bridge of a child agent draws a fresh id
BridgeQuestionIds(bridge, e) ==
    IF bridge = "orchestrator" THEN {e}
    ELSE {q \in QIds \ Tasks : lastObj[q] = None}

(***************************************************************************)
(* The bridges of task 1 answer their agents, and the backend serves the   *)
(* requests the bridges make: spawn-agent and the question relay.          *)
(***************************************************************************)
NextBridge ==
    \/ \E bridge \in Bridges : ToolsList(bridge)
    \/ \E bridge \in Bridges, tool_name \in ToolSurface : ToolsCall(bridge, tool_name)
    \/ /\ Serving("orchestrator", "spawn_agent")
       /\ agent_counter < MaxLaunched
       /\ spawn_agent(1, 1)
    \/ SpawnReturn(1)
    \/ \E bridge \in Bridges : \E q \in BridgeQuestionIds(bridge, 1) :
          /\ Serving(bridge, "ask_user")
          /\ nextObj < MaxRelayAsks
          /\ post_question(nextObj + 1, q, 1)
    \/ \E k \in AskSlots : PostQuestionReturn(k)
    \/ \E q \in QIds : pending_questions[q] # None /\ post_answer(q, "postgres")

SpecBridge == InitQuestions /\ [][NextBridge]_vars

\* C33: the sidechannel bridge configured for the orchestrator exposes and
\* handles all five tools (ask_user, spawn_agent, get_agent_status,
\* spawn_agents, wait_for_agents), and the bridge configured for a child
\* agent exposes only ask_user.
C33_BridgeToolSurface ==
    /\ (toolResp.bridge = "orchestrator" /\ toolResp.method = "tools/list")
          => toolResp.tools = ToolSurface
    /\ (toolResp.bridge = "orchestrator" /\ toolResp.method = "tools/call")
          => toolResp.handled
    /\ (toolResp.bridge = "agent" /\ toolResp.method = "tools/list")
          => toolResp.tools = {"ask_user"}

\* the agent-complete events of agent a published on the stream of its task
CompleteEvents(a) ==
    SelectSeq(published[launcher[a].e],
              LAMBDA m : m.type = "agent-complete" /\ m.ref = a)

\* C34: for every dynamic agent exactly one agent-complete event is
\* published on its task stream, on every exit path of
\* launch_agent_subprocess (normal exit, timeout, sandbox blocked,
\* image-build failure in docker-wrap mode, binary not found, exception):
\* never more than one, and one when the launcher has ended.
C34_ExactlyOneAgentComplete ==
    \A a \in AgentIds :
        launcher[a].pc # "none" =>
            /\ Len(CompleteEvents(a)) <= 1
            /\ launcher[a].pc \in {"ended", "crashed"} => Len(CompleteEvents(a)) = 1

\* the types of the events that tell of a dynamic agent
AgentEventTypes == {"agent-spawn", "agent-output", "file-activity", "agent-complete"}

\* C35: when a task's status becomes completed or failed and its complete
\* event is published, every dynamic agent of that task is already in a
\* terminal status: no child agent is still pending or running, and no
\* agent event of the task is published after the task's complete event.
C35_AgentsDoneBeforeComplete ==
    \A e \in Tasks :
        \A i \in DOMAIN published[e] :
            published[e][i].type = "complete" =>
                /\ \A a \in AgentsOf(e) : dynamic_agents[e][a].status \in Terminal
                /\ \A j \in DOMAIN published[e] :
                      j > i => published[e][j].type \notin AgentEventTypes

\* C36: for each task at most one complete event is published on its task
\* stream over the task's whole life, counting the dynamic orchestrator run
\* and any static fallback run together.
C36_OneCompleteEvent ==
    \A e \in Tasks :
        Len(SelectSeq(published[e], LAMBDA m : m.type = "complete")) <= 1

\* the launcher's writes to the status of agent a, in code order
StatusWrites(a) ==
    SelectSeq(trace[a], LAMBDA f : f \in {"status:running"} \cup TerminalWrite)

\* C37: a dynamic agent reaches a terminal status only from running: the
\* sequence of its statuses is pending, then running, then completed or
\* failed, on every path of launch_agent_subprocess.  Of the launcher's
\* writes to the status the first, and only the first, is running, and a
\* terminal status is written over running (or over itself).
C37_TerminalOnlyFromRunning ==
    \A a \in AgentIds :
        LET w == StatusWrites(a)
        IN \A i \in DOMAIN w :
              /\ w[i] = "status:running" <=> i = 1
              /\ w[i] \in TerminalWrite => w[i - 1] \in {"status:running", w[i]}

\* the serial number of the clarification published last for question q on
\* stream s (0: none)
LastClarification(s, q) ==
    LET ks == {k \in DOMAIN published[s] :
                 published[s][k].type = "clarification" /\ published[s][k].ref = q}
    IN IF ks = {} THEN 0 ELSE CHOOSE k \in ks : \A l \in ks : l <= k

\* C38: each subscriber receives every message published on a stream at
\* most once: no message is delivered both by the replay and by live
\* delivery, and on connect an unanswered clarification is not sent twice
\* (once from the replay buffer and once from the pending-question replay).
C38_DeliveredAtMostOnce ==
    \A c \in Joined :
        LET R == received[c]
        IN \A i, j \in DOMAIN R :
              i < j =>
                 /\ ~(R[i].n > 0 /\ R[i].n = R[j].n)
                 /\ ~(/\ R[j].type = "clarification" /\ R[j].n = 0
                      /\ R[i].type = "clarification" /\ R[i].ref = R[j].ref
                      /\ R[i].n = LastClarification(conn[c].sid, R[j].ref))

\* how many times question id q stands in the index list of task e
IndexCount(e, q) ==
    Cardinality({i \in DOMAIN pending_questions_by_execution[e] :
                   pending_questions_by_execution[e][i] = q})

\* C39: the per-task question index is always consistent with the
\* pending-question table: question id q appears in the index list of task
\* e exactly once if the table holds q with execution_id e, and not at all
\* otherwise, for every sequence of POST /question and answers, including
\* a POST /question whose id is already pending.
C39_IndexMatchesTable ==
    \A e \in Tasks, q \in QIds :
        IndexCount(e, q) =
            IF /\ pending_questions[q] # None
               /\ qobj[pending_questions[q]].execution_id = e
            THEN 1 ELSE 0

\* the appends to the output list of an agent
OutputAppends == {"output:line", "output:not-found", "output:sandbox", "output:docker",
                  "output:timeout", "output:error"}

\* the lengths of the lists of agent a: its output, and the files it has
\* read or modified (dynamic_orchestrator.py 698-704: one entry for every
\* file touched)
ListsOf(a) ==
    [output |-> Len(SelectSeq(trace[a], LAMBDA f : f \in OutputAppends)),
     files |-> Len(SelectSeq(trace[a], LAMBDA f : f = "file-activity"))]

\* internal_dynamic.py 84-86, 102-105: the agent-spawn message is built
\* from the record of a new agent: its lists are empty
SpawnTimeLists == [output |-> 0, files |-> 0]

\* ws.py 46-48: json.dumps(msg) when the replay sends message m of the
\* buffer.  The agent-spawn message holds a shallow copy of the agent's
\* record (internal_dynamic.py 102-105), so its output and file lists are
\* the agent's own list objects, serialised as they are now.
ReplayPayload(m) ==
    IF m.type = "agent-spawn" THEN [frame |-> m, lists |-> ListsOf(m.ref)]
    ELSE [frame |-> m, lists |-> SpawnTimeLists]

\* store.py 233: json.dumps(message) when message m is broadcast
BroadcastPayload(m) == [frame |-> m, lists |-> SpawnTimeLists]

\* websocket c is sent the next message of the replay buffer in this step
ReplaySends(c) ==
    /\ conn'[c].pc = "replay"
    /\ conn'[c].i = conn[c].i + 1
    /\ Len(received'[c]) = Len(received[c]) + 1

\* C40: a message replayed from a replay buffer has the same content as when
\* it was first published: an agent-spawn frame replayed to a late
\* subscriber shows the agent's output and file lists as they were at spawn
\* time, not the agent's current lists.
C40_ReplayedAsPublished ==
    [][\A c \in Conns :
          ReplaySends(c) =>
              LET m == received'[c][Len(received'[c])]
              IN ReplayPayload(m) = BroadcastPayload(m)]_vars

====
